---- MODULE Spec2Model ----
(***************************************************************************)
(* Reading position and annotation consistency engine of the EPUB reader.  *)
(*                                                                         *)
(* The storage service (bookmarks, highlights, reading progress, book      *)
(* deletion), the reader component that drives it, and the translation     *)
(* hook are modelled as one state machine.  Every asynchronous function is *)
(* a call record kept in `pending` while it awaits a storage operation;    *)
(* one step of the model completes one awaited operation and runs the      *)
(* caller up to its next await (or to its return).                         *)
(***************************************************************************)
EXTENDS Integers, Sequences, FiniteSets, TLC

(***************************************************************************)
(* Bounds of the model.                                                    *)
(***************************************************************************)
MaxCalls == 3      \* client calls issued in one behaviour
MaxFaults == 1     \* storage operations that may reject in one behaviour
MaxInFlight == 2   \* calls a concurrent client keeps in flight
MaxEvents == 5     \* user events in one reading session

(***************************************************************************)
(* Values.                                                                 *)
(***************************************************************************)
None == <<>>                 \* null / undefined / a missing entry
Some(v) == <<v>>
IsSome(o) == o # <<>>
Val(o) == o[1]

Books == {"b1"}
Cfis == {"x", "y"}
Contents == {"c1", "c2"}      \* texts that need translation
Languages == {"es", "fr"}
CacheKeys == Contents \X Languages     \* `${text}_${targetLanguage}`
Texts == {1, 2}              \* bookmark labels ("Page <n>%")
Colors == {"yellow", "pink"}
Variants == {FALSE, TRUE}    \* isTranslated

\* One key for both variants of a book
KeyOfBook(bookId, isTranslated) == <<bookId, FALSE>>

\* `${bookId}` or `${bookId}_translated`
Key(bookId, isTranslated) == <<bookId, isTranslated>>
Keys == {Key(b, t) : b \in Books, t \in Variants}

BookmarkOf(c, t) == [cfi |-> c, text |-> t]
HighlightOf(c, col, pct) == [cfi |-> c, color |-> col, percentage |-> pct]

StoreNames == {"books", "files", "covers", "configs"}

VARIABLES
  recordStores,     \* [StoreNames -> SUBSET Books]: books with an entry under
                    \* their id (`${bookId}_config` in "configs")
  translationStore, \* `${bookId}_translation`: [Books -> None | Some(state)]
  forageProgress,   \* "books" store, `progress_${key}`: [Keys -> None | Some(r)]
  bookmarkStore,    \* `${bookId}_bookmarks`: [Books -> None | Some(list)]
  highlightStore,   \* `${key}_highlights`: [Keys -> None | Some(list)]
  localStorage,     \* [bookmarks, highlights, progress, settings]: the JSON maps;
                    \* quota, order: whether setItem throws, and key(i)
  sessionStorage,   \* `${READING_PROGRESS_KEY}_${key}`: [Keys -> None | Some(r)]
  pending,          \* calls awaiting a storage operation, in issue order
  deleteJoin,       \* the Promise.all of the deleteBook in flight, or None
  faults,           \* rejections (of storage operations, of calls on the
                    \* rendering engine) still to be injected
  budget,           \* [calls, overlap]: calls and user events still to be
                    \* made, and how many the client keeps in flight
  translateElement, \* value of the translation widget (.goog-te-combo)
  reader,           \* state of the Reader component; shown: the position
                    \* its rendition displays
  hook,             \* refs and state of the useTranslation hook
  translationCache, \* the translation service's module-level Map
  hist              \* history: results returned, what the claims refer to

storeVars == <<recordStores, translationStore, forageProgress, bookmarkStore,
               highlightStore, localStorage, sessionStorage>>
envVars == <<budget, translateElement, hook, translationCache>>
vars == <<storeVars, pending, deleteJoin, faults, envVars, reader, hist>>

(***************************************************************************)
(* Pending storage operations.  Every localforage instance lives in the    *)
(* same IndexedDB database; an operation is one transaction on its own     *)
(* object store.  Transactions on the same object store take effect in the *)
(* order they were created, except that two reads may complete in either   *)
(* order.  A call in `pending` awaits the operation `op`; completing it    *)
(* applies its effect and resumes the call in the same step.               *)
(***************************************************************************)
Op(store, kind) == [store |-> store, kind |-> kind]
Conflict(a, b) == a.store = b.store /\ (a.kind # "get" \/ b.kind # "get")
Blocked(i) == \E j \in 1..(i - 1) : Conflict(pending[j].op, pending[i].op)
Rest(i) == SubSeq(pending, 1, i - 1) \o SubSeq(pending, i + 1, Len(pending))
Ready(i, pc) == i \in 1..Len(pending) /\ pending[i].pc = pc /\ ~Blocked(i)

\* The outcomes of a storage operation: it resolves, or (while the fault
\* budget lasts) it rejects.
Outcomes == IF faults > 0 THEN {TRUE, FALSE} ELSE {TRUE}
Inject(ok) == faults' = IF ok THEN faults ELSE faults - 1

\* A call record: the function, the await it is suspended at, its arguments
\* and locals, and the frame that awaits its return (None: a client).
Call(fn, pc, op, bookId, isTranslated, arg, list, caller) ==
  [fn |-> fn, pc |-> pc, op |-> op, book |-> bookId, tr |-> isTranslated,
   arg |-> arg, list |-> list, caller |-> caller,
   del |-> bookId \in hist.deleted, failed |-> FALSE]

\* A storage operation the call awaited has rejected
Rejecting(p, ok) == [p EXCEPT !.failed = @ \/ ~ok]

\* Only the getters handle a rejection
OnlyGettersCatch(fn) == fn \in {"getBookmarks", "getHighlights"}

\* The body of the function is a try block whose catch logs and returns
\* (getBookmarks and getHighlights return a fallback value from theirs)
Catches(fn) ==
  fn \in {"getBookmarks", "saveBookmark", "removeBookmark", "getHighlights",
          "saveHighlight", "removeHighlight", "saveReadingProgress"}

(***************************************************************************)
(* localStorage helpers.                                                   *)
(***************************************************************************)
\* safeStorageGet(key, {})[k] || []
safeStorageGet(key) == localStorage[key]

\* keysToPreserve (READER_SETTINGS_KEY holds nothing that is modelled)
Preserved == {"progress", "settings"}

\* What safeStorageGet(key, {}) yields for a key that is not stored
EmptyEntry(key) ==
  CASE key = "bookmarks" -> [b \in Books |-> <<>>]
    [] key = "highlights" -> [k \in Keys |-> <<>>]
    [] key = "progress" -> [k \in Keys |-> None]
    [] key = "settings" -> None

\* localStorage.removeItem(key)
removeItem(ls, key) ==
  [ls EXCEPT ![key] = EmptyEntry(key),
             !.order = SelectSeq(@, LAMBDA k : k # key)]

\* localStorage.setItem(key, value) when it does not throw
setItem(ls, key, value) ==
  [ls EXCEPT ![key] = value,
             !.order = IF \E i \in 1..Len(@) : @[i] = key
                         THEN @ ELSE Append(@, key)]

\* for (let i = 0; i < localStorage.length; i++) { key = localStorage.key(i);
\* if (!keysToPreserve.includes(key)) localStorage.removeItem(key) }: a
\* removal shifts the later keys down while i still advances
RECURSIVE ClearSpace(_, _)
ClearSpace(ls, i) ==
  IF i > Len(ls.order) THEN ls
  ELSE IF ls.order[i] \notin Preserved
    THEN ClearSpace(removeItem(ls, ls.order[i]), i + 1)
    ELSE ClearSpace(ls, i + 1)

\* The states of the storage quota: setItem succeeds ("free"), throws until
\* space has been cleared ("tight"), or throws whatever is cleared
\* ("exceeded")
Quotas == {"free", "tight", "exceeded"}

\* safeStorageSet(key, value): setItem; when it throws, the keys that are
\* not preserved are removed and setItem is tried once more
safeStorageSet(key, value) ==
  LET cleared == ClearSpace(localStorage, 1)
  IN CASE localStorage.quota = "free" -> setItem(localStorage, key, value)
       [] localStorage.quota = "tight" ->
            IF cleared # localStorage
              THEN setItem([cleared EXCEPT !.quota = "free"], key, value)
              ELSE cleared
       [] localStorage.quota = "exceeded" -> cleared

(***************************************************************************)
(* Annotation lists.                                                       *)
(***************************************************************************)
\* list.findIndex(b => b.cfi === cfi), 0 when there is none
findIndex(list, cfi) ==
  IF \E i \in 1..Len(list) : list[i].cfi = cfi
    THEN CHOOSE i \in 1..Len(list) :
           list[i].cfi = cfi /\ \A j \in 1..(i - 1) : list[j].cfi # cfi
    ELSE 0

\* list.push(item)
Push(list, item) == Append(list, item)

\* if (existingIndex >= 0) list[existingIndex] = item; else list.push(item)
Upsert(list, item) ==
  IF findIndex(list, item.cfi) > 0
    THEN [list EXCEPT ![findIndex(list, item.cfi)] = item]
    ELSE Append(list, item)

\* list.filter(b => b.cfi !== cfi)
FilterOut(list, cfi) == SelectSeq(list, LAMBDA b : b.cfi # cfi)

HasCfi(list, cfi) == \E i \in 1..Len(list) : list[i].cfi = cfi

(***************************************************************************)
(* The translation widget and the reader's view of it.                     *)
(***************************************************************************)
WidgetValues == {"", "original", "es"}

\* translateElement?.value ? translateElement.value !== 'original' : false
IsTranslated(value) == IF value # "" THEN value # "original" ELSE FALSE

\* handleTranslationChange: translateElement.value !== 'original'
IsTranslatedOnChange(value) == value # "original"

\* The location index: the percentage of a position, in thousandths of a
\* percent (percentageFromCfi(cfi) * 100).
PercentageFromCfi(cfi) == IF cfi = "x" THEN 25004 ELSE 75000

\* parseFloat(n.toFixed(2)) on thousandths: rounded to a multiple of 10
ToFixed2(n) == IF n >= 0 THEN ((n + 5) \div 10) * 10
                         ELSE -(((-n) + 5) \div 10) * 10

\* The `bookmarks` state seen by the locationChanged handler: the handler is
\* registered by the [file] effect of the first render, whose closure holds
\* the initial state useState<Bookmark[]>([]).
ClosureBookmarks == <<>>

\* The `toc` state seen by the locationChanged handler, whose
\* updateCurrentChapter is the one of the render that registered it:
\* useState<any[]>([])
ClosureToc == <<>>

\* currentLocation.start.href of a position: the href of its section, a
\* string of characters
HrefOf(cfi) == IF cfi = "x" THEN <<"o", "a">> ELSE <<"b">>

\* navigation.toc of the book opened
BookToc == <<[href |-> HrefOf("x"), label |-> "One"],
             [href |-> HrefOf("y"), label |-> "Two"]>>

\* s.includes(part)
includes(s, part) ==
  \E i \in 1..(Len(s) + 1) :
    /\ i + Len(part) - 1 <= Len(s)
    /\ SubSeq(s, i, i + Len(part) - 1) = part

\* toc.find(item => item.href === href): the index of the entry, 0 when
\* there is none
findExact(toc, href) ==
  IF \E i \in 1..Len(toc) : toc[i].href = href
    THEN CHOOSE i \in 1..Len(toc) :
           toc[i].href = href /\ \A j \in 1..(i - 1) : toc[j].href # href
    ELSE 0

\* toc.find(item => href.includes(item.href))
findIncluded(toc, href) ==
  IF \E i \in 1..Len(toc) : includes(href, toc[i].href)
    THEN CHOOSE i \in 1..Len(toc) :
           /\ includes(href, toc[i].href)
           /\ \A j \in 1..(i - 1) : ~includes(href, toc[j].href)
    ELSE 0

\* updateCurrentChapter(href) with the `toc` of its closure: the label
\* setCurrentChapter is called with, else the label there is
updateCurrentChapter(toc, href, currentChapter) ==
  IF findExact(toc, href) > 0 THEN toc[findExact(toc, href)].label
  ELSE IF findIncluded(toc, href) > 0 THEN toc[findIncluded(toc, href)].label
  ELSE currentChapter

\* What getBookmarks would find: the cached list, else the fallback's
StoredBookmarks(bookId) ==
  IF IsSome(bookmarkStore[bookId]) THEN Val(bookmarkStore[bookId])
                                   ELSE localStorage.bookmarks[bookId]

Elems(list) == {list[i] : i \in 1..Len(list)}
CfisOf(list) == {list[i].cfi : i \in 1..Len(list)}

\* getHighlights up to `await highlightStore.getItem(...)`
getHighlightsCall(fn, bookId, isTranslated, arg, caller) ==
  Call(fn, "getHighlights_getItem", Op("highlights", "get"), bookId,
       isTranslated, arg, <<>>, caller)

\* The effect on [rendition, highlights]: a non-empty list is redrawn
ApplyHighlights(annotations, highlights) ==
  IF Len(highlights) > 0 THEN CfisOf(highlights) ELSE annotations

\* History of the bookmark toggle pair: a finished toggle moves on.
ToggleDone(t) ==
  [t EXCEPT !.state = CASE t.state = "first" -> "between"
                        [] t.state = "second" -> "done"
                        [] OTHER -> t.state]

\* The reader's handler resumes after the storage call it awaited returned v.
ReaderResume(c, rest, v) ==
  CASE c.h = "loadBookmarksAndHighlights_getBookmarks" ->
         \* setBookmarks(loaded); await getHighlights(bookId, isTranslated)
         /\ reader' = [reader EXCEPT !.bookmarks = v]
         /\ pending' = Append(rest,
              getHighlightsCall("getHighlights", c.book,
                IsTranslated(translateElement), None,
                Some([c EXCEPT !.h = "loadBookmarksAndHighlights_getHighlights"])))
         /\ UNCHANGED hist
    [] c.h = "loadBookmarksAndHighlights_getHighlights" ->
         /\ reader' = [reader EXCEPT
                         !.highlights = v,
                         !.annotations = ApplyHighlights(@, v)]
         /\ pending' = rest
         /\ UNCHANGED hist
    [] c.h = "addBookmark_removeBookmark" ->
         \* setBookmarks(bookmarks.filter(...)); setIsCurrentPageBookmarked(false)
         /\ reader' = [reader EXCEPT
                         !.bookmarks = FilterOut(c.list, c.item.cfi),
                         !.isCurrentPageBookmarked = FALSE]
         /\ pending' = rest
         /\ hist' = [hist EXCEPT !.toggle = ToggleDone(hist.toggle)]
    [] c.h = "addBookmark_saveBookmark" ->
         \* setBookmarks([...bookmarks, newBookmark]); setIsCurrentPageBookmarked(true)
         /\ reader' = [reader EXCEPT
                         !.bookmarks = Append(c.list, c.item),
                         !.isCurrentPageBookmarked = TRUE]
         /\ pending' = rest
         /\ hist' = [hist EXCEPT !.toggle = ToggleDone(hist.toggle)]
    [] c.h = "handleTranslationChange" ->
         \* setHighlights(loaded); annotations.clear(); add each loaded
         /\ reader' = [reader EXCEPT
              !.highlights = v,
              !.annotations = IF reader.rendition THEN CfisOf(v) ELSE @]
         /\ pending' = rest
         /\ hist' = [hist EXCEPT
              !.firstView = None,
              !.firstList = IF IsSome(hist.firstView) THEN Some(v) ELSE @,
              !.change = IF @.state = "loading"
                           THEN [@ EXCEPT !.state = "handled"] ELSE @]
    [] c.h = "handleHighlight" ->
         \* setHighlights([...highlights, newHighlight]); annotations.add
         /\ reader' = [reader EXCEPT
                         !.highlights = Append(c.list, c.item),
                         !.annotations =
                           ApplyHighlights(@ \cup {c.item.cfi},
                                           Append(c.list, c.item))]
         /\ pending' = rest
         /\ UNCHANGED hist
    [] c.h = "handleHighlightDelete" ->
         \* setHighlights(highlights.filter(...)); annotations.remove
         /\ reader' = [reader EXCEPT
                         !.highlights = FilterOut(c.list, c.item.cfi),
                         !.annotations =
                           ApplyHighlights(@ \ {c.item.cfi},
                                           FilterOut(c.list, c.item.cfi))]
         /\ pending' = rest
         /\ UNCHANGED hist

\* The frame of a reader handler suspended in a storage call: the handler,
\* the state it captured when it ran, and the annotation it is about.
Frame(h, bookId, list, item) ==
  Some([h |-> h, book |-> bookId, list |-> list, item |-> item])

\* The call goes on to its next await.
Continue(p, rest) ==
  /\ pending' = Append(rest, p)
  /\ UNCHANGED <<reader, hist>>

\* The call returns `v` to whoever awaits it: a client, or a reader handler.
Return(p, rest, v) ==
  IF p.caller = None
    THEN /\ pending' = rest
         /\ hist' = [hist EXCEPT !.lastResult =
                       [fn |-> p.fn, book |-> p.book, tr |-> p.tr,
                        arg |-> Some(p.arg), value |-> v,
                        del |-> p.del /\ p.book \in hist.deleted,
                        failed |-> p.failed]]
         /\ UNCHANGED reader
    ELSE ReaderResume(Val(p.caller), rest, v)

\* The call rejects: the frame awaiting it is abandoned
Raise(p, rest) ==
  /\ pending' = rest
  /\ hist' = [hist EXCEPT !.raised = @ \cup {p.fn}]
  /\ UNCHANGED reader

\* The awaited write of a save or remove has settled: a rejection goes to
\* the catch of the function
AfterWrite(p, rest, ok) ==
  IF ok \/ Catches(p.fn) THEN Return(Rejecting(p, ok), rest, None)
                         ELSE Raise(p, rest)

(***************************************************************************)
(* Bookmarks: getBookmarks, saveBookmark, removeBookmark.                  *)
(***************************************************************************)
\* What the caller of getBookmarks does with the list it returns.
AfterGetBookmarks(p, rest, list) ==
  CASE p.fn = "getBookmarks" -> Return(p, rest, list)
    [] p.fn = "saveBookmark" ->
         Continue([p EXCEPT !.pc = "saveBookmark_setItem",
                            !.op = Op("bookmarks", "set"),
                            !.list = Upsert(list, p.arg)], rest)
    [] p.fn = "removeBookmark" ->
         Continue([p EXCEPT !.pc = "removeBookmark_setItem",
                            !.op = Op("bookmarks", "set"),
                            !.list = FilterOut(list, p.arg.cfi)], rest)

\* getBookmarks up to `await bookmarkStore.getItem(...)`
getBookmarksCall(fn, bookId, arg, caller) ==
  Call(fn, "getBookmarks_getItem", Op("bookmarks", "get"), bookId, FALSE, arg,
       <<>>, caller)

\* getBookmarks after `await bookmarkStore.getItem(...)`: the cached list, or
\* the localStorage fallback (then cached), or in the catch the fallback alone
getBookmarks_getItem(i) ==
  /\ Ready(i, "getBookmarks_getItem")
  /\ LET p == pending[i]
         fallback == safeStorageGet("bookmarks")[p.book]
     IN \E ok \in Outcomes :
          /\ Inject(ok)
          /\ UNCHANGED storeVars
          /\ IF ok /\ IsSome(bookmarkStore[p.book])
               THEN AfterGetBookmarks(p, Rest(i), Val(bookmarkStore[p.book]))
               ELSE IF ok
                 THEN Continue([p EXCEPT !.pc = "getBookmarks_setItem",
                                         !.op = Op("bookmarks", "set"),
                                         !.list = fallback], Rest(i))
                 ELSE AfterGetBookmarks(Rejecting(p, ok), Rest(i), fallback)
  /\ UNCHANGED <<deleteJoin, envVars>>

\* getBookmarks after `await bookmarkStore.setItem(...)` of the fallback list
\* (a rejection is caught and logged)
getBookmarks_setItem(i) ==
  /\ Ready(i, "getBookmarks_setItem")
  /\ LET p == pending[i]
     IN \E ok \in Outcomes :
          /\ Inject(ok)
          /\ bookmarkStore' = IF ok
               THEN [bookmarkStore EXCEPT ![p.book] = Some(p.list)]
               ELSE bookmarkStore
          /\ AfterGetBookmarks(Rejecting(p, ok), Rest(i), p.list)
  /\ UNCHANGED <<recordStores, translationStore, forageProgress,
                 highlightStore, localStorage, sessionStorage, deleteJoin,
                 envVars>>

\* localStorage after the backup write of a book's bookmark list
BookmarkBackup(bookId, list) ==
  safeStorageSet("bookmarks",
                 [safeStorageGet("bookmarks") EXCEPT ![bookId] = list])

\* saveBookmark / removeBookmark after `await bookmarkStore.setItem(...)`:
\* the backup write to localStorage; a rejection skips it (catch)
WriteBookmarks(i) ==
  /\ LET p == pending[i]
     IN \E ok \in Outcomes :
          /\ Inject(ok)
          /\ bookmarkStore' = IF ok
               THEN [bookmarkStore EXCEPT ![p.book] = Some(p.list)]
               ELSE bookmarkStore
          /\ localStorage' = IF ok THEN BookmarkBackup(p.book, p.list)
                                   ELSE localStorage
          /\ AfterWrite(p, Rest(i), ok)
  /\ UNCHANGED <<recordStores, translationStore, forageProgress,
                 highlightStore, sessionStorage, deleteJoin, envVars>>

saveBookmark_setItem(i) ==
  /\ Ready(i, "saveBookmark_setItem")
  /\ WriteBookmarks(i)

removeBookmark_setItem(i) ==
  /\ Ready(i, "removeBookmark_setItem")
  /\ WriteBookmarks(i)

(***************************************************************************)
(* Highlights: getHighlights, saveHighlight, removeHighlight.              *)
(***************************************************************************)
\* What the caller of getHighlights does with the list it returns.
AfterGetHighlights(p, rest, list) ==
  CASE p.fn = "getHighlights" -> Return(p, rest, list)
    [] p.fn = "saveHighlight" ->
         Continue([p EXCEPT !.pc = "saveHighlight_setItem",
                            !.op = Op("highlights", "set"),
                            !.list = Upsert(list, p.arg)], rest)
    [] p.fn = "removeHighlight" ->
         Continue([p EXCEPT !.pc = "removeHighlight_setItem",
                            !.op = Op("highlights", "set"),
                            !.list = FilterOut(list, p.arg.cfi)], rest)

\* The percentage of a highlight stored before the field existed (undefined)
NoPercentage == -1

\* highlights.map(h => ({...h, percentage: h.percentage || 0}))
ValidatedHighlights(list) ==
  [i \in 1..Len(list) |->
     [list[i] EXCEPT !.percentage = IF @ = 0 \/ @ = NoPercentage THEN 0 ELSE @]]

\* getHighlights after `await highlightStore.getItem(...)`: the cached list,
\* or the validated localStorage list (then cached); the catch returns []
getHighlights_getItem(i) ==
  /\ Ready(i, "getHighlights_getItem")
  /\ LET p == pending[i]
         key == Key(p.book, p.tr)
         fallback == ValidatedHighlights(safeStorageGet("highlights")[key])
     IN \E ok \in Outcomes :
          /\ Inject(ok)
          /\ UNCHANGED storeVars
          /\ IF ok /\ IsSome(highlightStore[key])
               THEN AfterGetHighlights(p, Rest(i), Val(highlightStore[key]))
               ELSE IF ok
                 THEN Continue([p EXCEPT !.pc = "getHighlights_setItem",
                                         !.op = Op("highlights", "set"),
                                         !.list = fallback], Rest(i))
                 ELSE AfterGetHighlights(Rejecting(p, ok), Rest(i), <<>>)
  /\ UNCHANGED <<deleteJoin, envVars>>

\* getHighlights after `await highlightStore.setItem(...)` of the validated
\* list; a rejection reaches the catch, which returns []
getHighlights_setItem(i) ==
  /\ Ready(i, "getHighlights_setItem")
  /\ LET p == pending[i]
         key == Key(p.book, p.tr)
     IN \E ok \in Outcomes :
          /\ Inject(ok)
          /\ highlightStore' = IF ok
               THEN [highlightStore EXCEPT ![key] = Some(p.list)]
               ELSE highlightStore
          /\ AfterGetHighlights(Rejecting(p, ok), Rest(i),
                                IF ok THEN p.list ELSE <<>>)
  /\ UNCHANGED <<recordStores, translationStore, forageProgress,
                 bookmarkStore, localStorage, sessionStorage, deleteJoin,
                 envVars>>

\* localStorage after the backup write of a variant's highlight list
HighlightBackup(key, list) ==
  safeStorageSet("highlights",
                 [safeStorageGet("highlights") EXCEPT ![key] = list])

\* saveHighlight / removeHighlight after `await highlightStore.setItem(...)`:
\* the backup write to localStorage; a rejection skips it (catch)
WriteHighlights(i) ==
  /\ LET p == pending[i]
         key == Key(p.book, p.tr)
     IN \E ok \in Outcomes :
          /\ Inject(ok)
          /\ highlightStore' = IF ok
               THEN [highlightStore EXCEPT ![key] = Some(p.list)]
               ELSE highlightStore
          /\ localStorage' = IF ok THEN HighlightBackup(key, p.list)
                                   ELSE localStorage
          /\ AfterWrite(p, Rest(i), ok)
  /\ UNCHANGED <<recordStores, translationStore, forageProgress,
                 bookmarkStore, sessionStorage, deleteJoin, envVars>>

saveHighlight_setItem(i) ==
  /\ Ready(i, "saveHighlight_setItem")
  /\ WriteHighlights(i)

removeHighlight_setItem(i) ==
  /\ Ready(i, "removeHighlight_setItem")
  /\ WriteHighlights(i)

(***************************************************************************)
(* Reading progress.  A JavaScript number is a record: a finite number in  *)
(* thousandths of a percent, NaN, Infinity, or a value that is no number   *)
(* (null, undefined).                                                      *)
(***************************************************************************)
Num(n) == [t |-> "number", v |-> n]
NaN == [t |-> "NaN", v |-> 0]
Infinity == [t |-> "Infinity", v |-> 0]
Null == [t |-> "null", v |-> 0]
Undefined == [t |-> "undefined", v |-> 0]

\* typeof x === 'number'
TypeofNumber(x) == x.t \in {"number", "NaN", "Infinity"}

Min(a, b) == IF a < b THEN a ELSE b
Max(a, b) == IF a > b THEN a ELSE b

\* Math.max(0, Math.min(100, parseFloat(x.toFixed(2))))
ClampPercentage(x) ==
  CASE x.t = "number" -> Num(Max(0, Min(100000, ToFixed2(x.v))))
    [] x.t = "Infinity" -> Num(100000)
    [] OTHER -> x

\* JSON.parse(JSON.stringify(x)): NaN and Infinity are written as null
JSONNumber(x) == IF x.t \in {"NaN", "Infinity", "undefined"} THEN Null ELSE x

ProgressOf(cfi, percentage, isTranslated) ==
  [cfi |-> cfi, percentage |-> percentage, isTranslated |-> isTranslated]

JSONProgress(r) == [r EXCEPT !.percentage = JSONNumber(@)]

\* saveReadingProgress's validatedProgress
ValidatedProgress(progress) ==
  [progress EXCEPT !.percentage = ClampPercentage(@)]

\* if (!progress.cfi || typeof progress.percentage !== 'number') return
RejectsProgress(progress) ==
  progress.cfi = "" \/ ~TypeofNumber(progress.percentage)

\* saveReadingProgress(bookId, progress), called with `pend` pending: the
\* localStorage map, the sessionStorage copy, and the localforage backup
\* (bookStore.setItem(...), not awaited)
saveReadingProgress(bookId, progress, pend) ==
  LET key == Key(bookId, progress.isTranslated)
      validated == ValidatedProgress(progress)
  IN IF RejectsProgress(progress)
       THEN /\ UNCHANGED <<localStorage, sessionStorage>>
            /\ pending' = pend
       ELSE /\ localStorage' = safeStorageSet("progress",
                 [safeStorageGet("progress") EXCEPT
                    ![key] = Some(JSONProgress(validated))])
            /\ sessionStorage' = [sessionStorage EXCEPT
                                    ![key] = Some(JSONProgress(validated))]
            /\ pending' = Append(pend,
                 Call("saveReadingProgress", "saveReadingProgress_setItem",
                      Op("books", "set"), bookId, progress.isTranslated,
                      validated, <<>>, None))

\* bookStore.setItem(`progress_${key}`, ...) settles; .catch logs
saveReadingProgress_setItem(i) ==
  /\ Ready(i, "saveReadingProgress_setItem")
  /\ LET p == pending[i]
     IN \E ok \in Outcomes :
          /\ Inject(ok)
          /\ forageProgress' = IF ok
               THEN [forageProgress EXCEPT ![Key(p.book, p.tr)] = Some(p.arg)]
               ELSE forageProgress
          /\ hist' = IF ok THEN hist
               ELSE IF Catches(p.fn)
                 THEN [hist EXCEPT !.progressFailed = TRUE]
                 ELSE [hist EXCEPT !.raised = @ \cup {p.fn}]
  /\ pending' = Rest(i)
  /\ UNCHANGED <<recordStores, translationStore, bookmarkStore,
                 highlightStore, localStorage, sessionStorage, deleteJoin,
                 envVars, reader>>

\* The record getReadingProgress finds synchronously: localStorage's, else
\* sessionStorage's (`progress?.cfi` holds for every stored record)
FoundProgress(key) ==
  IF IsSome(safeStorageGet("progress")[key])
    THEN safeStorageGet("progress")[key]
    ELSE sessionStorage[key]

\* What getReadingProgress returns
getReadingProgressResult(bookId, isTranslated) ==
  LET progress == FoundProgress(Key(bookId, isTranslated))
  IN IF IsSome(progress) /\ TypeofNumber(Val(progress).percentage)
       THEN Some(ProgressOf(Val(progress).cfi,
                            Num(ToFixed2(Val(progress).percentage.v)),
                            Val(progress).isTranslated))
       ELSE None

\* getReadingProgress's lookups started with `pend` pending: when neither
\* synchronous tier has the record, bookStore.getItem(...) is started with
\* the localStorage map read at the top of the call (allProgress)
getReadingProgress(bookId, isTranslated, pend) ==
  pending' =
    IF IsSome(FoundProgress(Key(bookId, isTranslated)))
      THEN pend
      ELSE Append(pend,
             Call("getReadingProgress", "getReadingProgress_getItem",
                  Op("books", "get"), bookId, isTranslated, None,
                  safeStorageGet("progress"), None))

\* bookStore.getItem(`progress_${key}`).then(...): a record found is synced
\* back into the map read by the call that started the lookup
getReadingProgress_getItem(i) ==
  /\ Ready(i, "getReadingProgress_getItem")
  /\ LET p == pending[i]
         key == Key(p.book, p.tr)
     IN \E ok \in Outcomes :
          /\ Inject(ok)
          /\ localStorage' = IF ok /\ IsSome(forageProgress[key])
               THEN safeStorageSet("progress",
                      [p.list EXCEPT
                         ![key] = Some(JSONProgress(Val(forageProgress[key])))])
               ELSE localStorage
  /\ pending' = Rest(i)
  /\ UNCHANGED <<recordStores, translationStore, forageProgress,
                 bookmarkStore, highlightStore, sessionStorage, deleteJoin,
                 envVars, reader, hist>>

\* removeReadingProgress(bookId): both variants leave localStorage and
\* sessionStorage
removeReadingProgress(bookId) ==
  /\ localStorage' = safeStorageSet("progress",
       [k \in Keys |-> IF k[1] = bookId THEN None
                                        ELSE safeStorageGet("progress")[k]])
  /\ sessionStorage' = [k \in Keys |->
       IF k[1] = bookId THEN None ELSE sessionStorage[k]]

(***************************************************************************)
(* deleteBook: Promise.all over the eight removals.  removeReadingProgress *)
(* is synchronous; the other seven are pending operations, joined in       *)
(* `deleteJoin`.  Promise.all rejects with the first rejection that        *)
(* reaches it and resolves when every removal has resolved.                *)
(***************************************************************************)
DeleteCall(bookId, pc, store) ==
  Call("deleteBook", pc, Op(store, "remove"), bookId, FALSE, None, <<>>, None)

\* The removals started by deleteBook(id), in the order of the array
DeleteCalls(bookId) ==
  << DeleteCall(bookId, "deleteBook_removeItem", "books"),
     DeleteCall(bookId, "deleteBook_removeItem", "files"),
     DeleteCall(bookId, "deleteBook_removeItem", "covers"),
     DeleteCall(bookId, "removeAllBookmarksForBook_removeItem", "bookmarks"),
     DeleteCall(bookId, "removeAllHighlightsForBook_removeItem1", "highlights"),
     DeleteCall(bookId, "removeBookConfig_removeItem", "configs"),
     DeleteCall(bookId, "removeTranslationState_removeItem", "translations") >>

\* The keys the in-memory cache of translateText holds
Cached == {k \in CacheKeys : translationCache[k] # None}

\* One removal settles: `failed` when its storage operation rejected,
\* `raised` when that rejection reaches Promise.all.
Join(rest, failed, raised) ==
  LET j == Val(deleteJoin)
      rejected == j.rejected \/ raised
      stepFailed == hist.deleteStepFailed \/ failed
  IN /\ pending' = rest
     /\ deleteJoin' = IF j.remaining = 1 THEN None
                  ELSE Some([j EXCEPT !.remaining = @ - 1,
                                      !.rejected = rejected])
     /\ hist' = [hist EXCEPT
          !.deleteStepFailed = stepFailed,
          !.deleteOutcome =
             IF raised /\ ~j.rejected THEN "rejected"
             ELSE IF j.remaining = 1 /\ ~rejected THEN "resolved"
             ELSE @,
          !.deleted =
             IF j.remaining = 1 /\ ~rejected /\ j.clean
               THEN @ \cup {j.book} ELSE @,
          !.invalid =
             IF j.remaining = 1 /\ ~rejected
               THEN @ \cup (hist.atDelete \cap Cached) ELSE @]
     /\ UNCHANGED reader

\* bookStore / fileStore / coverStore .removeItem(id) settles
deleteBook_removeItem(i) ==
  /\ Ready(i, "deleteBook_removeItem")
  /\ LET p == pending[i]
     IN \E ok \in Outcomes :
          /\ Inject(ok)
          /\ recordStores' = IF ok
               THEN [recordStores EXCEPT ![p.op.store] = @ \ {p.book}]
               ELSE recordStores
          /\ Join(Rest(i), ~ok, ~ok)
  /\ UNCHANGED <<translationStore, forageProgress, bookmarkStore,
                 highlightStore, localStorage, sessionStorage, envVars>>

\* removeBookConfig: the catch rethrows
removeBookConfig_removeItem(i) ==
  /\ Ready(i, "removeBookConfig_removeItem")
  /\ LET p == pending[i]
     IN \E ok \in Outcomes :
          /\ Inject(ok)
          /\ recordStores' = IF ok
               THEN [recordStores EXCEPT !["configs"] = @ \ {p.book}]
               ELSE recordStores
          /\ Join(Rest(i), ~ok, ~ok)
  /\ UNCHANGED <<translationStore, forageProgress, bookmarkStore,
                 highlightStore, localStorage, sessionStorage, envVars>>

\* removeTranslationState: the catch logs, the promise resolves
removeTranslationState_removeItem(i) ==
  /\ Ready(i, "removeTranslationState_removeItem")
  /\ LET p == pending[i]
     IN \E ok \in Outcomes :
          /\ Inject(ok)
          /\ translationStore' = IF ok
               THEN [translationStore EXCEPT ![p.book] = None]
               ELSE translationStore
          /\ Join(Rest(i), ~ok, FALSE)
  /\ UNCHANGED <<recordStores, forageProgress, bookmarkStore, highlightStore,
                 localStorage, sessionStorage, envVars>>

\* removeAllBookmarksForBook: cache entry, then the localStorage entry; the
\* catch logs, the promise resolves
removeAllBookmarksForBook_removeItem(i) ==
  /\ Ready(i, "removeAllBookmarksForBook_removeItem")
  /\ LET p == pending[i]
     IN \E ok \in Outcomes :
          /\ Inject(ok)
          /\ bookmarkStore' = IF ok
               THEN [bookmarkStore EXCEPT ![p.book] = None]
               ELSE bookmarkStore
          /\ localStorage' = IF ok THEN BookmarkBackup(p.book, <<>>)
                                   ELSE localStorage
          /\ Join(Rest(i), ~ok, FALSE)
  /\ UNCHANGED <<recordStores, translationStore, forageProgress,
                 highlightStore, sessionStorage, envVars>>

\* removeAllHighlightsForBook after the first removeItem (original list)
removeAllHighlightsForBook_removeItem1(i) ==
  /\ Ready(i, "removeAllHighlightsForBook_removeItem1")
  /\ LET p == pending[i]
     IN \E ok \in Outcomes :
          /\ Inject(ok)
          /\ IF ok
               THEN /\ highlightStore' =
                         [highlightStore EXCEPT ![Key(p.book, FALSE)] = None]
                    /\ pending' = Append(Rest(i),
                         [p EXCEPT !.pc = "removeAllHighlightsForBook_removeItem2"])
                    /\ UNCHANGED <<deleteJoin, hist, reader>>
               ELSE /\ UNCHANGED highlightStore
                    /\ Join(Rest(i), TRUE, FALSE)
  /\ UNCHANGED <<recordStores, translationStore, forageProgress,
                 bookmarkStore, localStorage, sessionStorage, envVars>>

\* removeAllHighlightsForBook after the second removeItem (translated list):
\* then both localStorage entries
removeAllHighlightsForBook_removeItem2(i) ==
  /\ Ready(i, "removeAllHighlightsForBook_removeItem2")
  /\ LET p == pending[i]
     IN \E ok \in Outcomes :
          /\ Inject(ok)
          /\ highlightStore' = IF ok
               THEN [highlightStore EXCEPT ![Key(p.book, TRUE)] = None]
               ELSE highlightStore
          /\ localStorage' = IF ok
               THEN safeStorageSet("highlights",
                      [k \in Keys |-> IF k[1] = p.book THEN <<>>
                                      ELSE safeStorageGet("highlights")[k]])
               ELSE localStorage
          /\ Join(Rest(i), ~ok, FALSE)
  /\ UNCHANGED <<recordStores, translationStore, forageProgress,
                 bookmarkStore, sessionStorage, envVars>>

(***************************************************************************)
(* Calls on the storage service by a client that does not wait for one     *)
(* call to return before it makes the next.                                *)
(***************************************************************************)
ProgressCfis == {"", "x", "y"}
Percentages == {Num(25004), Num(150000), NaN, Undefined}

\* The spec's acceptance of a progress write: a non-empty position and a
\* finite percentage within [0, 100]
Accepted(progress) ==
  /\ progress.cfi # ""
  /\ progress.percentage.t = "number"
  /\ progress.percentage.v >= 0
  /\ progress.percentage.v <= 100000

\* A call made while deleteBook is in flight overlaps the deletion
Overlapped(j) == IF IsSome(j) THEN Some([Val(j) EXCEPT !.clean = FALSE]) ELSE j

\* History at a call: which books were saved to since their deletion, and
\* whether this call is the second of two overlapping upserts of one record
Issue(bookId, isSave, race) ==
  [hist EXCEPT !.deleted = IF isSave THEN @ \ {bookId} ELSE @,
               !.race = race]

\* The call `fn` of an upsert of `item` is the only call in flight
OnlyPending(fn, isTranslated, item) ==
  /\ Len(pending) = 1
  /\ pending[1].fn = fn
  /\ pending[1].tr = isTranslated
  /\ pending[1].arg.cfi = item.cfi
  /\ pending[1].arg # item

Racing(fn, bookId, isTranslated, item) ==
  IF OnlyPending(fn, isTranslated, item) /\ pending[1].book = bookId
    THEN Some([fn |-> fn, book |-> bookId, tr |-> isTranslated,
               item |-> item])
    ELSE None

\* The client may make a call
MayCall == budget.calls > 0 /\ Len(pending) < budget.overlap
Called == budget' = [budget EXCEPT !.calls = @ - 1]

\* History: the save `call` is issued while the only call in flight is a
\* save of the same kind into the same partition at another position
Paired(call) ==
  IF /\ call.fn \in {"saveBookmark", "saveHighlight"}
     /\ Len(pending) = 1
     /\ pending[1].fn = call.fn
     /\ pending[1].book = call.book
     /\ pending[1].tr = call.tr
     /\ pending[1].arg.cfi # call.arg.cfi
    THEN Some([fn |-> call.fn, book |-> call.book, tr |-> call.tr,
               first |-> pending[1].arg, second |-> call.arg,
               calls |-> budget.calls - 1])
    ELSE None

Async(call, isSave, race) ==
  /\ Called
  /\ pending' = Append(pending, call)
  /\ deleteJoin' = Overlapped(deleteJoin)
  /\ hist' = [Issue(call.book, isSave, race) EXCEPT !.pair = Paired(call)]
  /\ UNCHANGED <<storeVars, faults, translateElement, hook, translationCache,
                 reader>>

ClientGetBookmarks ==
  \E b \in Books :
    /\ MayCall
    /\ Async(getBookmarksCall("getBookmarks", b, None, None),
                             FALSE, None)

SaveBookmarkCalls(cfis, texts) ==
  \E b \in Books, c \in cfis, t \in texts :
    /\ MayCall
    /\ Async(getBookmarksCall("saveBookmark", b, BookmarkOf(c, t), None), TRUE,
              Racing("saveBookmark", b, FALSE, BookmarkOf(c, t)))

ClientRemoveBookmark ==
  \E b \in Books, c \in Cfis :
    /\ MayCall
    /\ Async(getBookmarksCall("removeBookmark", b, [cfi |-> c], None), TRUE, None)

ClientGetHighlights ==
  \E b \in Books, v \in Variants :
    /\ MayCall
    /\ Async(getHighlightsCall("getHighlights", b, v, None, None), FALSE, None)

SaveHighlightCalls(cfis, colors) ==
  \E b \in Books, v \in Variants, c \in cfis, col \in colors :
    /\ MayCall
    /\ Async(getHighlightsCall("saveHighlight", b, v,
                                HighlightOf(c, col, PercentageFromCfi(c)), None),
              TRUE,
              Racing("saveHighlight", b, v,
                     HighlightOf(c, col, PercentageFromCfi(c))))

ClientRemoveHighlight ==
  \E b \in Books, v \in Variants, c \in Cfis :
    /\ MayCall
    /\ Async(getHighlightsCall("removeHighlight", b, v, [cfi |-> c], None),
              TRUE, None)

SaveReadingProgressCalls(cfis, percentages) ==
  \E b \in Books, v \in Variants, c \in cfis, pct \in percentages :
    LET progress == ProgressOf(c, pct, v)
    IN /\ MayCall
       /\ Called
       /\ saveReadingProgress(b, progress, pending)
       /\ deleteJoin' = Overlapped(deleteJoin)
       /\ hist' = [Issue(b, TRUE, None) EXCEPT
            !.lastResult = [fn |-> "saveReadingProgress", book |-> b,
                            tr |-> v, arg |-> Some(progress),
                            value |-> None, del |-> FALSE,
                            failed |-> FALSE],
            !.accepted = IF Accepted(progress)
               THEN [@ EXCEPT ![Key(b, v)] =
                       Some(ProgressOf(c, Num(ToFixed2(pct.v)), v))]
               ELSE @]
       /\ UNCHANGED <<recordStores, translationStore, forageProgress,
                      bookmarkStore, highlightStore, faults, translateElement,
                      hook, translationCache, reader>>

ClientSaveBookmark == SaveBookmarkCalls(Cfis, Texts)
ClientSaveHighlight == SaveHighlightCalls(Cfis, Colors)
ClientSaveReadingProgress == SaveReadingProgressCalls(ProgressCfis, Percentages)

ClientGetReadingProgress ==
  \E b \in Books, v \in Variants :
    /\ MayCall
    /\ Called
    /\ getReadingProgress(b, v, pending)
    /\ deleteJoin' = Overlapped(deleteJoin)
    /\ hist' = [Issue(b, FALSE, None) EXCEPT
         !.lastResult = [fn |-> "getReadingProgress", book |-> b, tr |-> v,
                         arg |-> None,
                         value |-> getReadingProgressResult(b, v),
                         del |-> b \in hist.deleted, failed |-> FALSE]]
    /\ UNCHANGED <<storeVars, faults, translateElement, hook,
                   translationCache, reader>>

\* deleteBook(id) up to `await Promise.all([...])`
ClientDeleteBook ==
  \E b \in Books :
    /\ MayCall
    /\ deleteJoin = None
    /\ Called
    /\ removeReadingProgress(b)
    /\ pending' = pending \o DeleteCalls(b)
    /\ deleteJoin' = Some([book |-> b, remaining |-> Len(DeleteCalls(b)),
                           rejected |-> FALSE, clean |-> pending = <<>>])
    /\ hist' = [Issue(b, FALSE, None) EXCEPT
                  !.deleteOutcome = "pending",
                  !.deleteStepFailed = FALSE,
                  !.atDelete = Cached,
                  !.accepted = [k \in Keys |-> IF k[1] = b THEN None ELSE @[k]]]
    /\ UNCHANGED <<recordStores, translationStore, forageProgress,
                   bookmarkStore, highlightStore, faults, translateElement,
                   hook, translationCache, reader>>

(***************************************************************************)
(* The storage service under a client: a book in the library, nothing      *)
(* annotated yet.                                                          *)
(***************************************************************************)
NoResult ==
  [fn |-> "", book |-> "", tr |-> FALSE, arg |-> None, value |-> None,
   del |-> FALSE, failed |-> FALSE]

\* History of a navigation gesture: none is followed
NoNav ==
  [handler |-> "", cfi |-> "", percentage |-> 0, calls |-> <<>>,
   done |-> FALSE]

HistInit ==
  [lastResult |-> NoResult, deleted |-> {}, race |-> None,
   accepted |-> [k \in Keys |-> None],
   deleteOutcome |-> "none", deleteStepFailed |-> FALSE,
   cancelled |-> {}, staleWrite |-> FALSE, switched |-> FALSE,
   viewed |-> {"original"}, firstView |-> None, firstList |-> None,
   nav |-> NoNav, change |-> [state |-> "none", progress |-> None],
   callInError |-> FALSE, load |-> None, staleUse |-> FALSE,
   invalid |-> {}, atDelete |-> {}, late |-> {}, servedInvalid |-> {},
   search |-> [state |-> "none", query |-> <<>>, complete |-> FALSE],
   raised |-> {}, progressFailed |-> FALSE, pair |-> None, clear |-> None,
   returned |-> [case |-> "none", content |-> "", language |-> "",
                 aborted |-> FALSE, value |-> [lang |-> "", text |-> ""]],
   toggle |-> [state |-> "idle", cfi |-> "", start |-> {}],
   detour |-> [state |-> "none", touched |-> FALSE, bookmarks |-> <<>>,
               highlights |-> <<>>, backup |-> <<>>, translated |-> <<>>]]

EmptyStorage ==
  /\ recordStores = [s \in StoreNames |-> Books]
  /\ translationStore = [b \in Books |-> None]
  /\ forageProgress = [k \in Keys |-> None]
  /\ bookmarkStore = [b \in Books |-> None]
  /\ highlightStore = [k \in Keys |-> None]
  /\ localStorage = [bookmarks |-> [b \in Books |-> <<>>],
                     highlights |-> [k \in Keys |-> <<>>],
                     progress |-> [k \in Keys |-> None],
                     settings |-> None,
                     quota |-> "free", order |-> <<>>]
  /\ sessionStorage = [k \in Keys |-> None]

\* readerSettings.fontSize: DEFAULT_READER_SETTINGS, and another size
DefaultFontSize == "default"
FontSizes == {DefaultFontSize, "larger"}

\* The reader's state once loadBook has displayed the book, its lists still
\* those of useState: the rendition exists, the location index is generated,
\* no error is shown
ReaderMounted ==
  /\ translateElement = "original"
  /\ reader = [bookmarks |-> <<>>, highlights |-> <<>>,
               isCurrentPageBookmarked |-> FALSE, location |-> None,
               annotations |-> {},
               rendition |-> TRUE, locations |-> TRUE, isLoading |-> FALSE,
               error |-> None, shown |-> None,
               fontSize |-> DefaultFontSize, stale |-> FALSE,
               searchResults |-> <<>>, isSearching |-> FALSE,
               spine |-> <<>>, index |-> <<>>,
               toc |-> BookToc, currentChapter |-> ""]

\* The hook is not in use
HookUnused ==
  /\ hook = [mounted |-> FALSE, queue |-> {}, controller |-> None,
             targetLanguage |-> "", debounce |-> None]
  /\ translationCache = [k \in CacheKeys |-> None]

Init ==
  /\ EmptyStorage
  /\ pending = <<>>
  /\ deleteJoin = None
  /\ faults = MaxFaults
  /\ budget = [calls |-> MaxCalls, overlap |-> MaxInFlight]
  /\ ReaderMounted
  /\ HookUnused
  /\ hist = HistInit

\* Positions in `pending`
Slots == 1..(2 * MaxCalls + 7)

\* An awaited operation of a bookmark or highlight call settles
SettleAnnotations ==
  \/ \E i \in Slots : getBookmarks_getItem(i)
  \/ \E i \in Slots : getBookmarks_setItem(i)
  \/ \E i \in Slots : saveBookmark_setItem(i)
  \/ \E i \in Slots : removeBookmark_setItem(i)
  \/ \E i \in Slots : getHighlights_getItem(i)
  \/ \E i \in Slots : getHighlights_setItem(i)
  \/ \E i \in Slots : saveHighlight_setItem(i)
  \/ \E i \in Slots : removeHighlight_setItem(i)

\* A lookup or backup write of the reading progress settles
SettleProgress ==
  \/ \E i \in Slots : saveReadingProgress_setItem(i)
  \/ \E i \in Slots : getReadingProgress_getItem(i)

\* A removal of deleteBook settles
SettleDelete ==
  \/ \E i \in Slots : deleteBook_removeItem(i)
  \/ \E i \in Slots : removeBookConfig_removeItem(i)
  \/ \E i \in Slots : removeTranslationState_removeItem(i)
  \/ \E i \in Slots : removeAllBookmarksForBook_removeItem(i)
  \/ \E i \in Slots : removeAllHighlightsForBook_removeItem1(i)
  \/ \E i \in Slots : removeAllHighlightsForBook_removeItem2(i)

\* Bookmarks and highlights under a client
Next ==
  \/ ClientGetBookmarks
  \/ ClientSaveBookmark
  \/ ClientRemoveBookmark
  \/ ClientGetHighlights
  \/ ClientSaveHighlight
  \/ ClientRemoveHighlight
  \/ SettleAnnotations

Spec == Init /\ [][Next]_vars

\* Reading progress under a client
NextProgress ==
  \/ ClientSaveReadingProgress
  \/ ClientGetReadingProgress
  \/ SettleProgress

SpecProgress == Init /\ [][NextProgress]_vars

\* Annotations and reading progress under one client
NextStore ==
  \/ Next
  \/ NextProgress

SpecStore == Init /\ [][NextStore]_vars

\* The whole storage service, deleteBook included, under a client that
\* awaits every call before it makes the next
InitDelete ==
  /\ EmptyStorage
  /\ pending = <<>>
  /\ deleteJoin = None
  /\ faults = MaxFaults
  /\ budget = [calls |-> MaxCalls + 1, overlap |-> 1]
  /\ ReaderMounted
  /\ HookUnused
  /\ hist = HistInit

NextDelete ==
  \/ SaveBookmarkCalls({"x"}, {1})
  \/ SaveHighlightCalls({"x"}, {"yellow"})
  \/ SaveReadingProgressCalls({"x"}, {Num(25004)})
  \/ ClientGetBookmarks
  \/ ClientGetHighlights
  \/ ClientGetReadingProgress
  \/ ClientDeleteBook
  \/ \E i \in Slots : getBookmarks_getItem(i)
  \/ \E i \in Slots : getBookmarks_setItem(i)
  \/ \E i \in Slots : saveBookmark_setItem(i)
  \/ \E i \in Slots : getHighlights_getItem(i)
  \/ \E i \in Slots : getHighlights_setItem(i)
  \/ \E i \in Slots : saveHighlight_setItem(i)
  \/ SettleProgress
  \/ SettleDelete

SpecDelete == InitDelete /\ [][NextDelete]_vars

(***************************************************************************)
(* The two tiers of the annotation store under a client that awaits every  *)
(* call: the book may have annotations of an earlier session, in both      *)
(* tiers or (written by a version without the fast tier, or after the      *)
(* browser evicted IndexedDB) in localStorage alone; localStorage may be   *)
(* at its quota.                                                           *)
(***************************************************************************)
PriorTiers == {"none", "fallback", "both"}

\* The highlight an earlier session left: without a percentage when it was
\* written to localStorage alone
PriorHighlight(tiers) ==
  HighlightOf("x", "yellow",
              IF tiers = "fallback" THEN NoPercentage
                                    ELSE ToFixed2(PercentageFromCfi("x")))

\* The orders in which localStorage.key(i) may enumerate the stored keys
KeyOrders(tiers) ==
  IF tiers = "none" THEN {<<>>}
  ELSE {<<"bookmarks", "highlights">>, <<"highlights", "bookmarks">>}

InitTiers ==
  /\ recordStores = [s \in StoreNames |-> Books]
  /\ translationStore = [b \in Books |-> None]
  /\ forageProgress = [k \in Keys |-> None]
  /\ sessionStorage = [k \in Keys |-> None]
  /\ \E tiers \in PriorTiers, quota \in Quotas :
     \E order \in KeyOrders(tiers) :
       LET bookmarks == IF tiers = "none" THEN <<>>
                        ELSE <<BookmarkOf("x", 1)>>
           highlights == IF tiers = "none" THEN <<>>
                         ELSE <<PriorHighlight(tiers)>>
       IN /\ bookmarkStore =
               [b \in Books |-> IF tiers = "both" THEN Some(bookmarks)
                                                  ELSE None]
          /\ highlightStore =
               [k \in Keys |-> IF tiers = "both" /\ ~k[2]
                                 THEN Some(highlights) ELSE None]
          /\ localStorage =
               [bookmarks |-> [b \in Books |-> bookmarks],
                highlights |-> [k \in Keys |->
                                  IF k[2] THEN <<>> ELSE highlights],
                progress |-> [k \in Keys |-> None],
                settings |-> None,
                quota |-> quota, order |-> order]
  /\ pending = <<>>
  /\ deleteJoin = None
  /\ faults = MaxFaults
  /\ budget = [calls |-> MaxCalls, overlap |-> 1]
  /\ ReaderMounted
  /\ HookUnused
  /\ hist = HistInit

NextTiers ==
  \/ ClientGetBookmarks
  \/ SaveBookmarkCalls({"y"}, {2})
  \/ ClientRemoveBookmark
  \/ ClientGetHighlights
  \/ SaveHighlightCalls({"y"}, {"pink"})
  \/ ClientRemoveHighlight
  \/ SettleAnnotations

SpecTiers == InitTiers /\ [][NextTiers]_vars

\* Bookmarks under a client that awaits every call
NextBookmarks ==
  \/ ClientGetBookmarks
  \/ ClientSaveBookmark
  \/ ClientRemoveBookmark
  \/ \E i \in Slots : getBookmarks_getItem(i)
  \/ \E i \in Slots : getBookmarks_setItem(i)
  \/ \E i \in Slots : saveBookmark_setItem(i)
  \/ \E i \in Slots : removeBookmark_setItem(i)

SpecBookmarks == InitTiers /\ [][NextBookmarks]_vars

(***************************************************************************)
(* The reader, opened on one book.  Its handlers run to their first await  *)
(* in the step of the event; the rest runs in ReaderResume when the        *)
(* storage call returns.                                                   *)
(***************************************************************************)
\* generateBookId(file)
BookId == CHOOSE b \in Books : TRUE

\* The list getHighlights would find: the cached list, else the fallback's
StoredHighlights(bookId, isTranslated) ==
  IF IsSome(highlightStore[Key(bookId, isTranslated)])
    THEN Val(highlightStore[Key(bookId, isTranslated)])
    ELSE ValidatedHighlights(localStorage.highlights[Key(bookId, isTranslated)])

\* No call on the bookmark or highlight store is in flight
AnnotationsQuiet ==
  \A i \in 1..Len(pending) :
    pending[i].op.store \notin {"bookmarks", "highlights"}

\* No call on the engine is in flight
NavigationQuiet ==
  \A i \in 1..Len(pending) :
    pending[i].op.store \notin {"engine", "locations", "timer"}

\* The location index was generated before the last change of the layout
IndexStale == reader.locations /\ reader.stale

\* History of progress writes: the most recent write the spec accepts
AcceptedAfter(accepted, bookId, progress) ==
  IF Accepted(progress)
    THEN [accepted EXCEPT ![Key(bookId, progress.isTranslated)] =
            Some(ProgressOf(progress.cfi,
                            Num(ToFixed2(progress.percentage.v)),
                            progress.isTranslated))]
    ELSE accepted

\* The user event is taken
Event ==
  /\ MayCall
  /\ Called
  /\ deleteJoin' = Overlapped(deleteJoin)
  /\ UNCHANGED <<faults, hook, translationCache>>

\* rendition 'locationChanged': the new location (its percentage stays 0
\* when the location index is unavailable), the bookmark flag as the
\* handler's closure sees the bookmarks, and the progress write
locationChanged ==
  \E cfi \in Cfis :
    LET percentage == IF reader.locations
                        THEN ToFixed2(PercentageFromCfi(cfi))
                        ELSE 0
        progress == ProgressOf(cfi, Num(percentage),
                               IsTranslated(translateElement))
    IN /\ reader.rendition /\ ~reader.isLoading
       /\ Event
       /\ reader' = [reader EXCEPT
            !.location = Some([cfi |-> cfi, percentage |-> percentage]),
            !.isCurrentPageBookmarked = HasCfi(ClosureBookmarks, cfi),
            !.currentChapter = updateCurrentChapter(ClosureToc, HrefOf(cfi), @),
            !.shown = Some([kind |-> "cfi", cfi |-> cfi, percentage |-> 0])]
       /\ saveReadingProgress(BookId, progress, pending)
       /\ hist' = [hist EXCEPT
            !.deleted = @ \ {BookId},
            !.accepted = AcceptedAfter(@, BookId, progress),
            !.change = [state |-> "none", progress |-> None],
            !.staleUse = @ \/ IndexStale]
       /\ UNCHANGED <<recordStores, translationStore, forageProgress,
                      bookmarkStore, highlightStore, translateElement>>

\* History of the toggle pair at a toggle on `cfi`: the second of a pair, or
\* the first of a new one (only when no bookmark call is in flight)
ToggleStarted(t, cfi) ==
  IF t.state = "between" /\ t.cfi = cfi
    THEN [t EXCEPT !.state = "second"]
    ELSE IF AnnotationsQuiet
      THEN [state |-> "first", cfi |-> cfi,
            start |-> CfisOf(StoredBookmarks(BookId))]
      ELSE [state |-> "idle", cfi |-> "", start |-> {}]

\* The history of a variant detour after a change of the stored annotations
\* made with the widget at `value`
DetourTouched(d, value) ==
  IF d.state = "away" THEN [d EXCEPT !.touched = TRUE]
  ELSE IF d.state = "back" /\ ~IsTranslated(value)
    THEN [d EXCEPT !.state = "none"]
  ELSE d

\* addBookmark up to its await (removeBookmark or saveBookmark)
addBookmark ==
  /\ IsSome(reader.location)
  /\ Event
  /\ LET location == Val(reader.location)
         newBookmark == BookmarkOf(location.cfi, location.percentage)
     IN pending' = Append(pending,
          IF reader.isCurrentPageBookmarked
            THEN getBookmarksCall("removeBookmark", BookId,
                   [cfi |-> location.cfi],
                   Frame("addBookmark_removeBookmark", BookId,
                         reader.bookmarks, [cfi |-> location.cfi]))
            ELSE getBookmarksCall("saveBookmark", BookId, newBookmark,
                   Frame("addBookmark_saveBookmark", BookId,
                         reader.bookmarks, newBookmark)))
  /\ hist' = [hist EXCEPT
       !.deleted = @ \ {BookId},
       !.toggle = ToggleStarted(@, Val(reader.location).cfi),
       !.detour = DetourTouched(@, translateElement)]
  /\ UNCHANGED <<storeVars, translateElement, reader>>

\* History of a variant detour at a change of the widget to `value`: a
\* detour starts when the Original variant is left with no annotation call
\* in flight, and ends when a value that is no translation is selected
DetourAt(d, value) ==
  IF ~IsTranslated(translateElement) /\ IsTranslated(value)
    THEN IF AnnotationsQuiet
      THEN [state |-> "away", touched |-> FALSE,
            bookmarks |-> StoredBookmarks(BookId),
            highlights |-> StoredHighlights(BookId, FALSE),
            backup |-> localStorage.highlights[Key(BookId, FALSE)],
            translated |-> StoredHighlights(BookId, TRUE)]
      ELSE [d EXCEPT !.state = "none"]
  ELSE IF d.state = "away" /\ ~IsTranslated(value)
    THEN [d EXCEPT !.state = "back"]
  ELSE d

\* History of the languages viewed at a change of the widget to `value`:
\* the first view of a translated language starts when the language was
\* never selected and no annotation call is in flight
FirstViewAt(viewed, value) ==
  IF value \in Languages /\ value \notin viewed /\ AnnotationsQuiet
    THEN Some(value)
    ELSE None

\* History of a variant switch at a change of the widget to `value`,
\* followed when the book is displayed and no engine call and no annotation
\* call is in flight: the progress record stored for the variant switched to
ChangeAt(value) ==
  IF /\ NavigationQuiet /\ AnnotationsQuiet
     /\ reader.rendition /\ ~reader.isLoading /\ reader.error = None
    THEN [state |-> "loading",
          progress |-> getReadingProgressResult(BookId,
                                                IsTranslatedOnChange(value))]
    ELSE [state |-> "none", progress |-> None]

\* The user selects another of `values` in the translation widget; the
\* 'change' listener handleTranslationChange runs up to
\* `await getHighlights(...)`
TranslationChange(values) ==
  \E value \in values \ {translateElement} :
    /\ Event
    /\ translateElement' = value
    /\ pending' = Append(pending,
         getHighlightsCall("getHighlights", BookId,
                           IsTranslatedOnChange(value), None,
                           Frame("handleTranslationChange", BookId, <<>>,
                                 None)))
    /\ hist' = [hist EXCEPT !.detour = DetourAt(@, value),
                            !.switched = @ \/ AnnotationsQuiet,
                            !.viewed = @ \cup {value},
                            !.firstView = FirstViewAt(hist.viewed, value),
                            !.firstList = None,
                            !.change = ChangeAt(value)]
    /\ UNCHANGED <<storeVars, reader>>

handleTranslationChange == TranslationChange(WidgetValues)

\* handleHighlight(color) on a selection at `cfi`, up to `await saveHighlight`
handleHighlight ==
  \E cfi \in Cfis, color \in {"yellow"} :
    /\ IsSome(reader.location)
    /\ Event
    /\ LET newHighlight ==
             HighlightOf(cfi, color, Val(reader.location).percentage)
       IN pending' = Append(pending,
            getHighlightsCall("saveHighlight", BookId,
                              IsTranslated(translateElement), newHighlight,
                              Frame("handleHighlight", BookId,
                                    reader.highlights, newHighlight)))
    /\ hist' = [hist EXCEPT !.deleted = @ \ {BookId},
                            !.switched = FALSE,
                            !.detour = DetourTouched(@, translateElement)]
    /\ UNCHANGED <<storeVars, translateElement, reader>>

\* handleHighlightDelete(cfi) for a highlight of the list shown, up to
\* `await removeHighlight`
handleHighlightDelete ==
  \E cfi \in CfisOf(reader.highlights) :
    /\ Event
    /\ pending' = Append(pending,
         getHighlightsCall("removeHighlight", BookId,
                           IsTranslated(translateElement), [cfi |-> cfi],
                           Frame("handleHighlightDelete", BookId,
                                 reader.highlights, [cfi |-> cfi])))
    /\ hist' = [hist EXCEPT !.deleted = @ \ {BookId},
                            !.switched = FALSE,
                            !.detour = DetourTouched(@, translateElement)]
    /\ UNCHANGED <<storeVars, translateElement, reader>>

\* The bookmarks a previous session left behind: none, or one at "x"
PriorBookmarks ==
  {<<>>, <<BookmarkOf("x", ToFixed2(PercentageFromCfi("x")))>>}

\* The reader has mounted on a book of the library: the effect on [bookId]
\* has called loadBookmarksAndHighlights, which awaits getBookmarks
InitReader ==
  /\ hist = HistInit
  /\ recordStores = [s \in StoreNames |-> Books]
  /\ translationStore = [b \in Books |-> None]
  /\ forageProgress = [k \in Keys |-> None]
  /\ highlightStore = [k \in Keys |-> None]
  /\ sessionStorage = [k \in Keys |-> None]
  /\ \E prior \in PriorBookmarks :
       /\ bookmarkStore =
            [b \in Books |-> IF prior = <<>> THEN None ELSE Some(prior)]
       /\ localStorage = [bookmarks |-> [b \in Books |-> prior],
                          highlights |-> [k \in Keys |-> <<>>],
                          progress |-> [k \in Keys |-> None],
                          settings |-> None,
                          quota |-> "free",
                          order |-> IF prior = <<>> THEN <<>>
                                                    ELSE <<"bookmarks">>]
  /\ pending = << getBookmarksCall("getBookmarks", BookId, None,
                    Frame("loadBookmarksAndHighlights_getBookmarks", BookId,
                          <<>>, None)) >>
  /\ deleteJoin = None
  /\ faults = MaxFaults
  /\ budget = [calls |-> MaxEvents, overlap |-> MaxInFlight]
  /\ ReaderMounted
  /\ HookUnused

NextReader ==
  \/ locationChanged
  \/ addBookmark
  \/ handleTranslationChange
  \/ handleHighlight
  \/ handleHighlightDelete
  \/ SettleAnnotations
  \/ \E i \in Slots : saveReadingProgress_setItem(i)

SpecReader == InitReader /\ [][NextReader]_vars

\* The values of the widget once two translated languages have been offered
VariantValues == {"original"} \cup Languages

\* 'change' events of a widget offering VariantValues
handleTranslationChange_languages == TranslationChange(VariantValues)

\* A reading session in which the book is viewed in several languages
NextVariants ==
  \/ locationChanged
  \/ handleTranslationChange_languages
  \/ handleHighlight
  \/ \E i \in Slots : getBookmarks_getItem(i)
  \/ \E i \in Slots : getBookmarks_setItem(i)
  \/ \E i \in Slots : getHighlights_getItem(i)
  \/ \E i \in Slots : getHighlights_setItem(i)
  \/ \E i \in Slots : saveHighlight_setItem(i)
  \/ \E i \in Slots : saveReadingProgress_setItem(i)

SpecVariants == InitReader /\ [][NextVariants]_vars

(***************************************************************************)
(* The rendering engine.  A call on the rendition (display, next, prev)    *)
(* is queued by the engine and settles later: it resolves, and the         *)
(* rendition shows the target, or it rejects.                              *)
(***************************************************************************)
MaxRenderFaults == 2   \* engine calls that may reject in one session
MaxGestures == 3       \* user events in a session followed from its opening

\* What a call asks the engine to show
Target(kind, cfi, percentage) ==
  [kind |-> kind, cfi |-> cfi, percentage |-> percentage]

StartTarget == Target("start", "", 0)          \* display()
CfiTarget(cfi) == Target("cfi", cfi, 0)        \* display(cfi)
HrefTarget(cfi) == Target("href", cfi, 0)      \* display(section.href)
PageTarget(kind) == Target(kind, "", 0)        \* next(), prev()

\* book.locations.cfiFromPercentage(percentage / 100): the start of the
\* location that holds the percentage, no position a record stored
CfiFromPercentage(percentage) == Target("percentage", "", percentage)

\* percentageFromCfi(rendition.currentLocation().start.cfi) * 100, in
\* thousandths: null (0) when the location index is empty, and the
\* percentage of whichever page the engine turned to after next(), prev()
\* or display(href)
PercentagesShown ==
  IF ~reader.locations \/ reader.shown = None THEN {0}
  ELSE LET t == Val(reader.shown)
       IN CASE t.kind = "cfi" -> {PercentageFromCfi(t.cfi)}
            [] t.kind = "percentage" -> {t.percentage}
            [] t.kind = "start" -> {0}
            [] OTHER -> {PercentageFromCfi(c) : c \in Cfis}

\* A call on the engine, suspended until the engine settles it
EngineCall(fn, pc, target, item) ==
  Call(fn, pc, Op("engine", "render"), BookId, FALSE,
       [target |-> target, item |-> item], <<>>, None)

\* book.locations.generate(1024), suspended until the index is built
GenerateCall(fn, pc, item) ==
  Call(fn, pc, Op("locations", "generate"), BookId, FALSE,
       [target |-> StartTarget, item |-> item], <<>>, None)

\* History: a navigation gesture of handler `by` starts; it is followed when
\* no engine call of an earlier gesture is in flight
GestureStarted(h, by, cfi, percentage) ==
  [h EXCEPT
     !.nav = IF NavigationQuiet
               THEN [handler |-> by, cfi |-> cfi, percentage |-> percentage,
                     calls |-> <<>>, done |-> FALSE]
               ELSE NoNav,
     !.change = [state |-> "none", progress |-> None]]

\* History: handler `by` hands a call for `target` to the engine
Issued(h, by, target) ==
  [h EXCEPT
     !.callInError = @ \/ IsSome(reader.error),
     !.nav = IF @.handler = by
               THEN [@ EXCEPT !.calls =
                       Append(@, [target |-> target, result |-> "pending"])]
               ELSE @]

\* History: the engine settled the last call of handler `by`
Settled(h, by, ok) ==
  [h EXCEPT
     !.nav = IF @.handler = by /\ @.calls # <<>>
               THEN [@ EXCEPT !.calls[Len(@.calls)].result =
                       IF ok THEN "shown" ELSE "failed"]
               ELSE @]

\* History: the gesture of handler `by` has run to its end
GestureFinished(h, by) ==
  [h EXCEPT !.nav = IF @.handler = by THEN [@ EXCEPT !.done = TRUE] ELSE @]

\* What the rendition shows once a call for `target` settled
ShownAfter(ok, target) == IF ok THEN Some(target) ELSE reader.shown

(***************************************************************************)
(* loadBook, the effect on [file].                                         *)
(***************************************************************************)
\* if (progress?.cfi && progress?.percentage)
RestoresProgress(progress) ==
  /\ IsSome(progress)
  /\ Val(progress).cfi # ""
  /\ Val(progress).percentage.v # 0

\* loadBook's targetCfi: the cfi calculated from the percentage when the
\* location index yields one, else the record's cfi
TargetOfProgress(progress, locations) ==
  IF locations THEN CfiFromPercentage(Val(progress).percentage.v)
               ELSE CfiTarget(Val(progress).cfi)

\* loadBook up to `await bookInstance.ready`: setIsLoading(true),
\* setError(null), ePub(fileUrl)
loadBookCall ==
  Call("loadBook", "loadBook_ready", Op("book", "open"), BookId, FALSE,
       [target |-> StartTarget, item |-> None], <<>>, None)

\* `await bookInstance.ready` settles.  Resolved: metadata and navigation
\* (each in its own try), renderTo, setRendition (the effects on [rendition]
\* draw the highlights and apply and save the reader settings), and loadBook
\* goes on to `await bookInstance.locations.generate(1024)`.  Rejected: the
\* outer catch sets the error and ends the loading state.
loadBook_ready(i) ==
  /\ Ready(i, "loadBook_ready")
  /\ \E ok \in Outcomes :
       /\ Inject(ok)
       /\ reader' = IF ok
            THEN [reader EXCEPT
                    !.rendition = TRUE,
                    !.toc = BookToc,
                    !.annotations = ApplyHighlights(@, reader.highlights)]
            ELSE [reader EXCEPT !.error = Some("initialize"),
                                !.isLoading = FALSE]
       /\ pending' = IF ok
            THEN Append(Rest(i), GenerateCall("loadBook", "loadBook_generate",
                                              None))
            ELSE Rest(i)
       /\ localStorage' = IF ok
            THEN safeStorageSet("settings", Some(reader.fontSize))
            ELSE localStorage
  /\ UNCHANGED <<recordStores, translationStore, forageProgress,
                 bookmarkStore, highlightStore, sessionStorage, deleteJoin,
                 envVars, hist>>

\* locations.generate settles (a rejection is logged); loadBook reads the
\* widget, calls getReadingProgress and displays the book: at the position
\* restored from the record, or from the start
loadBook_generate(i) ==
  /\ Ready(i, "loadBook_generate")
  /\ \E ok \in Outcomes :
       LET isTranslated == IsTranslated(translateElement)
           progress == getReadingProgressResult(BookId, isTranslated)
           target == IF RestoresProgress(progress)
                       THEN TargetOfProgress(progress, ok)
                       ELSE StartTarget
       IN /\ Inject(ok)
          /\ reader' = [reader EXCEPT
               !.locations = ok,
               !.stale = @ /\ ~ok,
               !.location = IF RestoresProgress(progress)
                  THEN Some([cfi |-> Val(progress).cfi,
                             percentage |-> Val(progress).percentage.v])
                  ELSE @]
          /\ getReadingProgress(BookId, isTranslated,
               Append(Rest(i),
                      EngineCall("loadBook", "loadBook_display", target,
                                 None)))
          /\ hist' = [hist EXCEPT
               !.load = Some([progress |-> progress, target |-> target])]
  /\ UNCHANGED <<storeVars, deleteJoin, envVars>>

\* The display settles and its catch only sets the error: the loading state
\* ends when the book is displayed
loadBook_display_shown(i) ==
  /\ Ready(i, "loadBook_display")
  /\ \E ok \in Outcomes :
       /\ Inject(ok)
       /\ reader' = [reader EXCEPT
            !.isLoading = ~ok,
            !.error = IF ok THEN @ ELSE Some("display"),
            !.shown = ShownAfter(ok, pending[i].arg.target)]
  /\ pending' = Rest(i)
  /\ UNCHANGED <<storeVars, deleteJoin, envVars, hist>>

\* `await newRendition.display(...)` settles: setIsLoading(false), and the
\* error "Failed to display the book" when it rejected
loadBook_display(i) ==
  /\ Ready(i, "loadBook_display")
  /\ \E ok \in Outcomes :
       /\ Inject(ok)
       /\ reader' = [reader EXCEPT
            !.isLoading = FALSE,
            !.error = IF ok THEN @ ELSE Some("display"),
            !.shown = ShownAfter(ok, pending[i].arg.target)]
  /\ pending' = Rest(i)
  /\ UNCHANGED <<storeVars, deleteJoin, envVars, hist>>

(***************************************************************************)
(* Navigation: the handlers of the reader's buttons, keys and sidebar.     *)
(***************************************************************************)
\* A call nobody awaits settles in the engine: rendition.next(), prev() and
\* display(href) of goToNext, goToPrevious and goToChapter
rendition_settle(i) ==
  /\ Ready(i, "rendition_settle")
  /\ \E ok \in Outcomes :
       /\ Inject(ok)
       /\ reader' = [reader EXCEPT
            !.shown = ShownAfter(ok, pending[i].arg.target)]
       /\ hist' = GestureFinished(Settled(hist, pending[i].fn, ok), pending[i].fn)
  /\ pending' = Rest(i)
  /\ UNCHANGED <<storeVars, deleteJoin, envVars>>

\* A handler hands `target` to the engine and does not await the call
Unawaited(by, target) ==
  /\ pending' = Append(pending,
       EngineCall(by, "rendition_settle", target, None))
  /\ hist' = Issued(GestureStarted(hist, by, target.cfi, 0), by, target)
  /\ UNCHANGED <<storeVars, translateElement, reader>>

\* goToNext(), also on ArrowRight: if (rendition) rendition.next()
goToNext ==
  /\ reader.rendition
  /\ Event
  /\ Unawaited("goToNext", PageTarget("next"))

\* goToPrevious(), also on ArrowLeft: if (rendition) rendition.prev()
goToPrevious ==
  /\ reader.rendition
  /\ Event
  /\ Unawaited("goToPrevious", PageTarget("prev"))

\* goToChapter(href): if (rendition) rendition.display(href)
goToChapter ==
  /\ reader.rendition
  /\ Event
  /\ \E cfi \in Cfis : Unawaited("goToChapter", HrefTarget(cfi))

\* Math.max(0, Math.min(100, percentage)), in thousandths
ValidPercentage(percentage) == Max(0, Min(100000, percentage))

\* navigateToPercentage(percentage) called by handler `by` with `pend`
\* pending, `total` telling whether book.locations.total is set: nothing
\* when the location index is not ready, else up to
\* `await rendition.display(cfi)`
navigateToPercentage(by, percentage, item, pend, h, total) ==
  IF ~reader.rendition \/ ~total
    THEN /\ pending' = pend
         /\ hist' = GestureFinished(h, by)
    ELSE LET target == CfiFromPercentage(ValidPercentage(percentage))
         IN /\ pending' = Append(pend,
                 EngineCall(by, "navigateToPercentage_display", target, item))
            /\ hist' = [Issued(h, by, target) EXCEPT
                          !.staleUse = @ \/ reader.stale]

\* navigateToPercentage's display settles; a rejection is logged
navigateToPercentage_display(i) ==
  /\ Ready(i, "navigateToPercentage_display")
  /\ \E ok \in Outcomes :
       /\ Inject(ok)
       /\ reader' = [reader EXCEPT
            !.shown = ShownAfter(ok, pending[i].arg.target)]
       /\ hist' = GestureFinished(Settled(hist, pending[i].fn, ok), pending[i].fn)
  /\ pending' = Rest(i)
  /\ UNCHANGED <<storeVars, deleteJoin, envVars>>

\* bookmark.text.match(/(\d+(\.\d+)?)%/): the label `Page ${percentage}%`
\* always holds a number; a sign is not part of the match
MatchPercentage(text) == IF text >= 0 THEN text ELSE -text

\* handleBookmarkClick(bookmark): the percentage of the label is tried
\* first; locations are generated before when the index is empty
handleBookmarkClick ==
  /\ reader.rendition
  /\ Event
  /\ \E j \in 1..Len(reader.bookmarks) :
       LET bookmark == reader.bookmarks[j]
           percentage == MatchPercentage(bookmark.text)
           started == GestureStarted(hist, "handleBookmarkClick",
                                     bookmark.cfi, percentage)
       IN IF reader.locations
            THEN navigateToPercentage("handleBookmarkClick", percentage,
                                      Some(bookmark), pending, started,
                                      TRUE)
            ELSE /\ pending' = Append(pending,
                      GenerateCall("handleBookmarkClick",
                                   "handleBookmarkClick_generate",
                                   Some(bookmark)))
                 /\ hist' = started
  /\ UNCHANGED <<storeVars, translateElement, reader>>

\* book.locations.generate(1024).then(() => navigateToPercentage(...)): a
\* rejection is handled by nobody
handleBookmarkClick_generate(i) ==
  /\ Ready(i, "handleBookmarkClick_generate")
  /\ \E ok \in Outcomes :
       /\ Inject(ok)
       /\ reader' = [reader EXCEPT !.locations = ok, !.stale = @ /\ ~ok]
       /\ IF ok
            THEN navigateToPercentage("handleBookmarkClick",
                   MatchPercentage(Val(pending[i].arg.item).text),
                   pending[i].arg.item, Rest(i), hist, TRUE)
            ELSE /\ pending' = Rest(i)
                 /\ hist' = GestureFinished(hist, "handleBookmarkClick")
  /\ UNCHANGED <<storeVars, deleteJoin, envVars>>

\* The difference as it is, its sign kept
Signed(n) == n

\* Math.abs(n)
Abs(n) == IF n >= 0 THEN n ELSE -n

\* handleHighlightClick(highlight) up to its first await: locations are
\* generated when the index is empty, else `await rendition.display(cfi)`
handleHighlightClick ==
  /\ reader.rendition
  /\ Event
  /\ \E j \in 1..Len(reader.highlights) :
       LET highlight == reader.highlights[j]
           started == GestureStarted(hist, "handleHighlightClick",
                                     highlight.cfi, highlight.percentage)
       IN IF reader.locations
            THEN /\ pending' = Append(pending,
                      EngineCall("handleHighlightClick",
                                 "handleHighlightClick_display",
                                 CfiTarget(highlight.cfi), Some(highlight)))
                 /\ hist' = Issued(started, "handleHighlightClick",
                                   CfiTarget(highlight.cfi))
            ELSE /\ pending' = Append(pending,
                      GenerateCall("handleHighlightClick",
                                   "handleHighlightClick_generate",
                                   Some(highlight)))
                 /\ hist' = started
  /\ UNCHANGED <<storeVars, translateElement, reader>>

\* `await book.locations.generate(1024)` settles: the handler goes on to
\* display the cfi; a rejection is caught and navigateToPercentage finds the
\* index empty
handleHighlightClick_generate(i) ==
  /\ Ready(i, "handleHighlightClick_generate")
  /\ \E ok \in Outcomes :
       LET highlight == Val(pending[i].arg.item)
       IN /\ Inject(ok)
          /\ reader' = [reader EXCEPT !.locations = ok, !.stale = @ /\ ~ok]
          /\ IF ok
               THEN /\ pending' = Append(Rest(i),
                         EngineCall("handleHighlightClick",
                                    "handleHighlightClick_display",
                                    CfiTarget(highlight.cfi), Some(highlight)))
                    /\ hist' = Issued(hist, "handleHighlightClick",
                                      CfiTarget(highlight.cfi))
               ELSE navigateToPercentage("handleHighlightClick",
                      highlight.percentage, Some(highlight), Rest(i), hist,
                      FALSE)
  /\ UNCHANGED <<storeVars, deleteJoin, envVars>>

\* `await rendition.display(highlight.cfi)` settles.  Resolved: the handler
\* waits 100 ms.  Rejected: the catch calls navigateToPercentage.
handleHighlightClick_display(i) ==
  /\ Ready(i, "handleHighlightClick_display")
  /\ \E ok \in Outcomes :
       LET highlight == Val(pending[i].arg.item)
           settled == Settled(hist, "handleHighlightClick", ok)
       IN /\ Inject(ok)
          /\ reader' = [reader EXCEPT
               !.shown = ShownAfter(ok, pending[i].arg.target)]
          /\ IF ok
               THEN /\ pending' = Append(Rest(i),
                         Call("handleHighlightClick",
                              "handleHighlightClick_wait", Op("timer", "get"),
                              BookId, FALSE, pending[i].arg, <<>>, None))
                    /\ hist' = settled
               ELSE navigateToPercentage("handleHighlightClick",
                      highlight.percentage, Some(highlight), Rest(i), settled,
                      reader.locations)
  /\ UNCHANGED <<storeVars, deleteJoin, envVars>>

\* The 100 ms are over: the percentage of the current location is compared
\* with the highlight's, and a difference above 0.5 is adjusted
handleHighlightClick_wait(i) ==
  /\ Ready(i, "handleHighlightClick_wait")
  /\ \E actual \in PercentagesShown :
       LET highlight == Val(pending[i].arg.item)
       IN IF Abs(actual - highlight.percentage) > 500
            THEN navigateToPercentage("handleHighlightClick",
                   highlight.percentage, Some(highlight), Rest(i), hist,
                   reader.locations)
            ELSE /\ pending' = Rest(i)
                 /\ hist' = GestureFinished(hist, "handleHighlightClick")
  /\ UNCHANGED <<storeVars, deleteJoin, faults, envVars, reader>>

\* goToSearchResult(cfi) up to `await rendition.display(cfi)`
goToSearchResult ==
  /\ reader.rendition
  /\ Event
  /\ \E cfi \in Cfis :
       /\ pending' = Append(pending,
            EngineCall("goToSearchResult", "goToSearchResult_display",
                       CfiTarget(cfi), Some([cfi |-> cfi])))
       /\ hist' = Issued(GestureStarted(hist, "goToSearchResult", cfi, 0),
                         "goToSearchResult", CfiTarget(cfi))
  /\ UNCHANGED <<storeVars, translateElement, reader>>

\* `await rendition.display(cfi)` settles.  Resolved: setLocation with the
\* current location, saveReadingProgress, and the hit is highlighted.
\* Rejected: the catch displays the href of book.spine.get(cfi).
goToSearchResult_display(i) ==
  /\ Ready(i, "goToSearchResult_display")
  /\ \E ok \in Outcomes :
       LET cfi == pending[i].arg.target.cfi
           percentage == IF reader.locations
                           THEN ToFixed2(PercentageFromCfi(cfi))
                           ELSE 0
           progress == ProgressOf(cfi, Num(percentage),
                                  IsTranslated(translateElement))
           settled == Settled(hist, "goToSearchResult", ok)
       IN /\ Inject(ok)
          /\ IF ok
               THEN /\ reader' = [reader EXCEPT
                         !.shown = Some(pending[i].arg.target),
                         !.location =
                           Some([cfi |-> cfi, percentage |-> percentage]),
                         !.annotations = @ \cup {cfi}]
                    /\ saveReadingProgress(BookId, progress, Rest(i))
                    /\ hist' = [GestureFinished(settled, "goToSearchResult") EXCEPT
                         !.deleted = @ \ {BookId},
                         !.accepted = AcceptedAfter(@, BookId, progress)]
               ELSE /\ pending' = Append(Rest(i),
                         EngineCall("goToSearchResult",
                                    "goToSearchResult_href", HrefTarget(cfi),
                                    pending[i].arg.item))
                    /\ hist' = Issued(settled, "goToSearchResult",
                                      HrefTarget(cfi))
                    /\ UNCHANGED <<localStorage, sessionStorage, reader>>
  /\ UNCHANGED <<recordStores, translationStore, forageProgress,
                 bookmarkStore, highlightStore, deleteJoin, envVars>>

\* `await rendition.display(spineItem.href)` settles; a rejection is logged
goToSearchResult_href(i) ==
  /\ Ready(i, "goToSearchResult_href")
  /\ \E ok \in Outcomes :
       /\ Inject(ok)
       /\ reader' = [reader EXCEPT
            !.shown = ShownAfter(ok, pending[i].arg.target)]
       /\ hist' = GestureFinished(Settled(hist, "goToSearchResult", ok),
                           "goToSearchResult")
  /\ pending' = Rest(i)
  /\ UNCHANGED <<storeVars, deleteJoin, envVars>>

(***************************************************************************)
(* Reader settings.                                                        *)
(***************************************************************************)
\* handleSettingsChange(newSettings) and the effect on [rendition,
\* readerSettings]: with a rendition, the stylesheet is replaced (the text
\* reflows), the current location is displayed again (not awaited) and the
\* settings are saved; the location index is left as it is
handleSettingsChange ==
  /\ Event
  /\ \E size \in FontSizes \ {reader.fontSize} :
       /\ reader' = [reader EXCEPT
            !.fontSize = size,
            !.stale = IF reader.rendition THEN reader.locations ELSE @]
       /\ localStorage' = IF reader.rendition
            THEN safeStorageSet("settings", Some(size))
            ELSE localStorage
  /\ pending' = IF reader.rendition /\ reader.shown # None
       THEN Append(pending,
              EngineCall("handleSettingsChange", "rendition_settle",
                         Val(reader.shown), None))
       ELSE pending
  /\ UNCHANGED <<recordStores, translationStore, forageProgress,
                 bookmarkStore, highlightStore, sessionStorage,
                 translateElement, hist>>

(***************************************************************************)
(* A reading session from the opening of the book.                         *)
(***************************************************************************)
\* The progress record of the Original variant an earlier session left:
\* none, one written with the location index, or one written by
\* locationChanged while the index was unavailable (percentage 0)
PriorProgress ==
  {None,
   Some(ProgressOf("x", Num(ToFixed2(PercentageFromCfi("x"))), FALSE)),
   Some(ProgressOf("y", Num(0), FALSE))}

\* The percentages of the page the earlier session's highlight was made on
PriorPercentages == {ToFixed2(PercentageFromCfi(c)) : c \in Cfis}

\* The reader mounts on a book of the library whose bookmark and highlight
\* are loaded; loadBook awaits bookInstance.ready
InitNavigation ==
  /\ hist = HistInit
  /\ recordStores = [s \in StoreNames |-> Books]
  /\ translationStore = [b \in Books |-> None]
  /\ \E prior \in PriorProgress, percentage \in PriorPercentages :
       LET bookmarks == <<BookmarkOf("x", ToFixed2(PercentageFromCfi("x")))>>
           highlights == <<HighlightOf("x", "yellow", percentage)>>
           progress == [k \in Keys |-> IF k = Key(BookId, FALSE) THEN prior
                                                                 ELSE None]
       IN /\ forageProgress = progress
          /\ sessionStorage = progress
          /\ bookmarkStore = [b \in Books |-> Some(bookmarks)]
          /\ highlightStore =
               [k \in Keys |-> IF k[2] THEN None ELSE Some(highlights)]
          /\ localStorage =
               [bookmarks |-> [b \in Books |-> bookmarks],
                highlights |-> [k \in Keys |->
                                  IF k[2] THEN <<>> ELSE highlights],
                progress |-> progress,
                settings |-> None,
                quota |-> "free",
                order |-> <<"bookmarks", "highlights">> \o
                          (IF prior = None THEN <<>> ELSE <<"progress">>)]
          /\ reader = [bookmarks |-> bookmarks, highlights |-> highlights,
                       isCurrentPageBookmarked |-> FALSE, location |-> None,
                       annotations |-> {},
                       rendition |-> FALSE, locations |-> FALSE,
                       isLoading |-> TRUE, error |-> None, shown |-> None,
                       fontSize |-> DefaultFontSize, stale |-> FALSE,
               searchResults |-> <<>>, isSearching |-> FALSE,
               spine |-> <<>>, index |-> <<>>,
               toc |-> <<>>, currentChapter |-> ""]
  /\ pending = <<loadBookCall>>
  /\ deleteJoin = None
  /\ faults = MaxRenderFaults
  /\ budget = [calls |-> MaxGestures, overlap |-> MaxInFlight]
  /\ translateElement = "original"
  /\ HookUnused

NextNavigation ==
  \/ \E i \in Slots : loadBook_ready(i)
  \/ \E i \in Slots : loadBook_generate(i)
  \/ \E i \in Slots : loadBook_display(i)
  \/ \E i \in Slots : getReadingProgress_getItem(i)
  \/ \E i \in Slots : saveReadingProgress_setItem(i)
  \/ locationChanged
  \/ handleTranslationChange
  \/ \E i \in Slots : getHighlights_getItem(i)
  \/ \E i \in Slots : getHighlights_setItem(i)
  \/ goToNext
  \/ goToPrevious
  \/ goToChapter
  \/ \E i \in Slots : rendition_settle(i)
  \/ handleBookmarkClick
  \/ \E i \in Slots : handleBookmarkClick_generate(i)
  \/ \E i \in Slots : navigateToPercentage_display(i)
  \/ handleHighlightClick
  \/ \E i \in Slots : handleHighlightClick_generate(i)
  \/ \E i \in Slots : handleHighlightClick_display(i)
  \/ \E i \in Slots : handleHighlightClick_wait(i)
  \/ goToSearchResult
  \/ \E i \in Slots : goToSearchResult_display(i)
  \/ \E i \in Slots : goToSearchResult_href(i)

SpecNavigation == InitNavigation /\ [][NextNavigation]_vars

\* A reading session in which the reader settings are changed
NextSettings ==
  \/ \E i \in Slots : loadBook_ready(i)
  \/ \E i \in Slots : loadBook_generate(i)
  \/ \E i \in Slots : loadBook_display(i)
  \/ \E i \in Slots : getReadingProgress_getItem(i)
  \/ \E i \in Slots : saveReadingProgress_setItem(i)
  \/ locationChanged
  \/ handleSettingsChange
  \/ handleBookmarkClick
  \/ \E i \in Slots : handleBookmarkClick_generate(i)
  \/ \E i \in Slots : navigateToPercentage_display(i)
  \/ \E i \in Slots : rendition_settle(i)

SpecSettings == InitNavigation /\ [][NextSettings]_vars

(***************************************************************************)
(* Translation: the useTranslation hook and the translation service.  A    *)
(* translateContent call is a record in `pending` like every other call;   *)
(* `id` names the call and the AbortController it creates.                 *)
(***************************************************************************)

\* A text: the content as it is, or the mock translation of it
Text(content) == [lang |-> "", text |-> content]
Translate(content, language) == [lang |-> language, text |-> content]

NoSections == [c \in Cfis |-> None]
TranslationStateOf(isTranslated, targetLanguage, sections) ==
  [isTranslated |-> isTranslated, targetLanguage |-> targetLanguage,
   translatedSections |-> sections]

\* state?.translatedSections[cfi]?.content || null
SectionOf(state, cfi) ==
  IF IsSome(state) THEN Val(state).translatedSections[cfi] ELSE None

TranslateCall(id, content, language, cfi) ==
  [fn |-> "translateContent", pc |-> "translateContent_getTranslatedSection",
   op |-> Op("translations", "get"), book |-> BookId, id |-> id,
   content |-> content, language |-> language, cfi |-> cfi,
   key |-> IF cfi # "" THEN cfi ELSE content, aborted |-> FALSE,
   state |-> None]

IsTranslation(r) == r.fn = "translateContent"

\* controller.abort(): a call waiting in translateText's timer is rejected
\* at once (it leaves through the catch and the finally); any other call of
\* that controller only has its signal marked
Rejected(pend, controller) ==
  {i \in 1..Len(pend) :
     /\ IsTranslation(pend[i])
     /\ controller = Some(pend[i].id)
     /\ pend[i].pc = "translateText_timeout"}

RejectedKeys(pend, controller) ==
  {pend[i].key : i \in Rejected(pend, controller)}

RECURSIVE AfterAbort(_, _)
AfterAbort(pend, controller) ==
  IF pend = <<>> THEN <<>>
  ELSE LET r == Head(pend)
           tail == AfterAbort(Tail(pend), controller)
       IN IF IsTranslation(r) /\ controller = Some(r.id)
            THEN IF r.pc = "translateText_timeout" THEN tail
                 ELSE <<[r EXCEPT !.aborted = TRUE]>> \o tail
            ELSE <<r>> \o tail

\* The ids of the translateContent calls in flight
InFlight(pend) == {pend[i].id : i \in {j \in 1..Len(pend) : IsTranslation(pend[j])}}

\* History: a translation result is written on behalf of call `id`
Wrote(h, id) == [h EXCEPT !.staleWrite = @ \/ id \in h.cancelled]

\* History: translateText puts a translation for the key of `p` into the
\* in-memory cache
Recached(h, p) ==
  [h EXCEPT !.invalid = @ \ {<<p.content, p.language>>},
            !.atDelete = @ \ {<<p.content, p.language>>}]

\* History: the request `p` is made after its key was invalidated
Requested(h, p) ==
  [h EXCEPT !.late =
     IF <<p.content, p.language>> \in h.invalid THEN @ \cup {p.id} ELSE @]

\* History: translateContent resolves for the request `p`: to `value` when
\* translateText returned it and the hook is still mounted, else to the
\* content
Returned(h, p, case, value) ==
  [h EXCEPT !.returned =
     [case |-> case, content |-> p.content, language |-> p.language,
      aborted |-> p.aborted,
      value |-> IF hook.mounted THEN value ELSE Text(p.content)]]

\* History: the request `p` is answered from the in-memory cache
Served(h, p) ==
  [h EXCEPT !.servedInvalid =
     IF <<p.content, p.language>> \in h.invalid /\ p.id \in h.late
       THEN @ \cup {p.cfi} ELSE @]

\* translateContent returns `value` (finally: the key leaves the queue)
Finished(p, value, queue) == queue \ {p.key}

\* translateContent from `abortController.current.abort()` on, with `rest`
\* the other pending calls: a new controller, then translateText up to its
\* first await (or to its return on a hit in the in-memory cache)
StartTranslateText(p, rest, queued, h) ==
  LET others == AfterAbort(rest, hook.controller)
      queue == queued \ RejectedKeys(rest, hook.controller)
      started == [p EXCEPT !.aborted = FALSE]
  IN IF IsSome(translationCache[<<p.content, p.language>>])
       THEN /\ pending' = others
            /\ hook' = [hook EXCEPT !.controller = Some(p.id),
                                    !.queue = Finished(p, "translated", queue)]
            /\ hist' = Returned(Served(h, p), started, "translated",
                                Val(translationCache[<<p.content,
                                                       p.language>>]))
       ELSE /\ pending' = Append(others,
                 IF p.cfi # ""
                   THEN [started EXCEPT
                           !.pc = "translateText_getTranslatedSection",
                           !.op = Op("translations", "get")]
                   ELSE [started EXCEPT !.pc = "translateText_timeout",
                                        !.op = Op("timer", "get")])
            /\ hook' = [hook EXCEPT !.controller = Some(p.id),
                                    !.queue = queue]
            /\ hist' = h

\* translateContent(content, language, cfi) up to its first await
translateContent ==
  \E content \in Contents, language \in Languages, cfi \in {"", "x"} :
    LET id == budget.calls
        p == TranslateCall(id, content, language, cfi)
    IN /\ budget.calls > 0
       /\ Called
       /\ IF ~hook.mounted \/ p.key \in hook.queue
            THEN /\ hist' = Returned(hist, p,
                   IF hook.mounted THEN "duplicate" ELSE "unmounted",
                   Text(content))
                 /\ UNCHANGED <<pending, hook>>
            ELSE IF cfi # ""
              THEN /\ pending' = Append(pending, p)
                   /\ hook' = [hook EXCEPT !.queue = @ \cup {p.key}]
                   /\ hist' = Requested(hist, p)
              ELSE StartTranslateText(p, pending, hook.queue \cup {p.key},
                                      Requested(hist, p))
       /\ UNCHANGED <<storeVars, deleteJoin, faults, translateElement,
                      translationCache, reader>>

\* translateContent after `await getTranslatedSection(bookId, cfi)` (a
\* failed read is caught by getTranslationState and yields null)
translateContent_getTranslatedSection(i) ==
  /\ Ready(i, "translateContent_getTranslatedSection")
  /\ LET p == pending[i]
     IN \E ok \in Outcomes :
          /\ Inject(ok)
          /\ IF ok /\ IsSome(SectionOf(translationStore[p.book], p.cfi))
               THEN /\ pending' = Rest(i)
                    /\ hook' = [hook EXCEPT
                                  !.queue = Finished(p, "cached", @)]
                    /\ hist' = [hist EXCEPT !.returned =
                         [case |-> "cached", content |-> p.content,
                          language |-> p.language, aborted |-> p.aborted,
                          value |-> Val(SectionOf(translationStore[p.book],
                                                  p.cfi))]]
               ELSE StartTranslateText(p, Rest(i), hook.queue, hist)
  /\ UNCHANGED <<storeVars, deleteJoin, budget, translateElement,
                 translationCache, reader>>

\* translateText after `await getTranslatedSection(bookId, cfi)`: a stored
\* translation goes into the in-memory cache and is returned; else the
\* signal is checked and the timer started
translateText_getTranslatedSection(i) ==
  /\ Ready(i, "translateText_getTranslatedSection")
  /\ LET p == pending[i]
     IN \E ok \in Outcomes :
          /\ Inject(ok)
          /\ IF ok /\ IsSome(SectionOf(translationStore[p.book], p.cfi))
               THEN /\ translationCache' =
                         [translationCache EXCEPT
                            ![<<p.content, p.language>>] =
                               SectionOf(translationStore[p.book], p.cfi)]
                    /\ pending' = Rest(i)
                    /\ hook' = [hook EXCEPT
                                  !.queue = Finished(p, "stored", @)]
                    /\ hist' = Returned(Recached(Wrote(hist, p.id), p), p,
                         "stored",
                         Val(SectionOf(translationStore[p.book], p.cfi)))
               ELSE IF p.aborted
                 THEN /\ pending' = Rest(i)
                      /\ hook' = [hook EXCEPT
                                    !.queue = Finished(p, "aborted", @)]
                      /\ hist' = Returned(hist, p, "aborted",
                                          Text(p.content))
                      /\ UNCHANGED translationCache
                 ELSE /\ pending' = Append(Rest(i),
                           [p EXCEPT !.pc = "translateText_timeout",
                                     !.op = Op("timer", "get")])
                      /\ UNCHANGED <<hook, translationCache, hist>>
  /\ UNCHANGED <<storeVars, deleteJoin, budget, translateElement, reader>>

\* translateText's timer fires: the mock translation goes into the in-memory
\* cache; with a cfi saveTranslatedSection is awaited
translateText_timeout(i) ==
  /\ Ready(i, "translateText_timeout")
  /\ LET p == pending[i]
     IN /\ translationCache' =
             [translationCache EXCEPT ![<<p.content, p.language>>] =
                Some(Translate(p.content, p.language))]
        /\ hist' = IF p.cfi # ""
             THEN Recached(Wrote(hist, p.id), p)
             ELSE Returned(Recached(Wrote(hist, p.id), p), p, "translated",
                           Translate(p.content, p.language))
        /\ IF p.cfi # ""
             THEN /\ pending' = Append(Rest(i),
                       [p EXCEPT
                          !.pc = "saveTranslatedSection_getTranslationState",
                          !.op = Op("translations", "get")])
                  /\ UNCHANGED hook
             ELSE /\ pending' = Rest(i)
                  /\ hook' = [hook EXCEPT
                                !.queue = Finished(p, "translated", @)]
  /\ UNCHANGED <<storeVars, deleteJoin, faults, budget, translateElement,
                 reader>>

\* saveTranslatedSection after `await getTranslationState(bookId)`: without
\* a state nothing is saved
saveTranslatedSection_getTranslationState(i) ==
  /\ Ready(i, "saveTranslatedSection_getTranslationState")
  /\ LET p == pending[i]
     IN \E ok \in Outcomes :
          /\ Inject(ok)
          /\ IF ok /\ IsSome(translationStore[p.book])
               THEN /\ pending' = Append(Rest(i),
                         [p EXCEPT !.pc = "saveTranslatedSection_setItem",
                                   !.op = Op("translations", "set"),
                                   !.state = translationStore[p.book]])
                    /\ UNCHANGED <<hook, hist>>
               ELSE /\ pending' = Rest(i)
                    /\ hook' = [hook EXCEPT
                                  !.queue = Finished(p, "translated", @)]
                    /\ hist' = Returned(hist, p, "translated",
                                        Translate(p.content, p.language))
  /\ UNCHANGED <<storeVars, deleteJoin, budget, translateElement,
                 translationCache, reader>>

\* saveTranslatedSection after `await translationStore.setItem(...)`: the
\* state read before, with this section added
saveTranslatedSection_setItem(i) ==
  /\ Ready(i, "saveTranslatedSection_setItem")
  /\ LET p == pending[i]
         updatedState == [Val(p.state) EXCEPT !.translatedSections[p.cfi] =
                            Some(Translate(p.content, p.language))]
     IN \E ok \in Outcomes :
          /\ Inject(ok)
          /\ translationStore' = IF ok
               THEN [translationStore EXCEPT ![p.book] = Some(updatedState)]
               ELSE translationStore
          /\ hist' = Returned(IF ok THEN Wrote(hist, p.id) ELSE hist, p,
                              "translated",
                              Translate(p.content, p.language))
          /\ pending' = Rest(i)
          /\ hook' = [hook EXCEPT !.queue = Finished(p, "translated", @)]
  /\ UNCHANGED <<recordStores, forageProgress, bookmarkStore, highlightStore,
                 localStorage, sessionStorage, deleteJoin, budget,
                 translateElement, translationCache, reader>>

\* saveTranslationState(bookId, state) up to `await getTranslationState`
SaveTranslationStateCall(state) ==
  [fn |-> "saveTranslationState",
   pc |-> "saveTranslationState_getTranslationState",
   op |-> Op("translations", "get"), book |-> BookId, arg |-> state]

\* saveTranslationState after `await getTranslationState(bookId)`: both
\* callers pass every field, so {...currentState, ...state} is `state`
saveTranslationState_getTranslationState(i) ==
  /\ Ready(i, "saveTranslationState_getTranslationState")
  /\ \E ok \in Outcomes : Inject(ok)
  /\ pending' = Append(Rest(i),
       [pending[i] EXCEPT !.pc = "saveTranslationState_setItem",
                          !.op = Op("translations", "set")])
  /\ UNCHANGED <<storeVars, deleteJoin, envVars, reader, hist>>

\* saveTranslationState after `await translationStore.setItem(...)`
saveTranslationState_setItem(i) ==
  /\ Ready(i, "saveTranslationState_setItem")
  /\ \E ok \in Outcomes :
       /\ Inject(ok)
       /\ translationStore' = IF ok
            THEN [translationStore EXCEPT ![pending[i].book] =
                    Some(pending[i].arg)]
            ELSE translationStore
  /\ pending' = Rest(i)
  /\ UNCHANGED <<recordStores, forageProgress, bookmarkStore, highlightStore,
                 localStorage, sessionStorage, deleteJoin, envVars, reader,
                 hist>>

\* The effect on [targetLanguage, bookId] after the language became `l`: the
\* previous timeout is cleared, a new one set unless the language is ''
Debounce(l) == IF l # "" THEN Some(l) ELSE None

\* loadTranslationState after `await getTranslationState(bookId)`
loadTranslationState_getTranslationState(i) ==
  /\ Ready(i, "loadTranslationState_getTranslationState")
  /\ LET state == translationStore[pending[i].book]
     IN \E ok \in Outcomes :
          /\ Inject(ok)
          /\ hook' = IF /\ ok
                        /\ IsSome(state)
                        /\ Val(state).isTranslated
                        /\ Val(state).targetLanguage # ""
                        /\ hook.mounted
                        /\ Val(state).targetLanguage # hook.targetLanguage
               THEN [hook EXCEPT
                       !.targetLanguage = Val(state).targetLanguage,
                       !.debounce = Debounce(Val(state).targetLanguage)]
               ELSE hook
  /\ pending' = Rest(i)
  /\ UNCHANGED <<storeVars, deleteJoin, budget, translateElement,
                 translationCache, reader, hist>>

\* History: the translations in flight belong to the context being left
Cancelled == [hist EXCEPT !.cancelled = @ \cup InFlight(pending)]

\* setTargetLanguage(language) by the component using the hook
setTargetLanguage ==
  \E language \in Languages \ {hook.targetLanguage} :
    /\ hook.mounted
    /\ budget.calls > 0
    /\ Called
    /\ hook' = [hook EXCEPT !.targetLanguage = language,
                            !.debounce = Debounce(language)]
    /\ hist' = Cancelled
    /\ UNCHANGED <<storeVars, pending, deleteJoin, faults, translateElement,
                   translationCache, reader>>

\* The 300 ms timeout of the language effect fires: updateTranslationState
updateTranslationState ==
  /\ IsSome(hook.debounce)
  /\ hook.mounted
  /\ pending' = Append(pending,
       SaveTranslationStateCall(
         TranslationStateOf(TRUE, Val(hook.debounce), NoSections)))
  /\ hook' = [hook EXCEPT !.debounce = None]
  /\ UNCHANGED <<storeVars, deleteJoin, faults, budget, translateElement,
                 translationCache, reader, hist>>

\* History: clearTranslation is called while nothing but translations is
\* in flight; the calls the hook's user has left once it has made this one
ClearedAt(pend) ==
  IF \A i \in 1..Len(pend) : IsTranslation(pend[i])
    THEN Some([calls |-> budget.calls - 1, inFlight |-> InFlight(pend)])
    ELSE None

\* clearTranslation up to `await saveTranslationState(...)`
clearTranslation ==
  /\ hook.mounted
  /\ budget.calls > 0
  /\ Called
  /\ pending' = Append(AfterAbort(pending, hook.controller),
       SaveTranslationStateCall(TranslationStateOf(FALSE, "", NoSections)))
  /\ hook' = [hook EXCEPT !.targetLanguage = "", !.debounce = Debounce(""),
                          !.queue = {}]
  /\ translationCache' = [k \in CacheKeys |-> None]
  /\ hist' = [Cancelled EXCEPT !.invalid = @ \cup Cached,
                               !.clear = ClearedAt(pending)]
  /\ UNCHANGED <<storeVars, deleteJoin, faults, translateElement, reader>>

\* The component using the hook unmounts: the cleanups of both effects
unmount ==
  /\ hook.mounted
  /\ budget.calls > 0
  /\ Called
  /\ pending' = AfterAbort(pending, hook.controller)
  /\ hook' = [hook EXCEPT !.mounted = FALSE, !.queue = {},
                          !.debounce = None]
  /\ hist' = Cancelled
  /\ UNCHANGED <<storeVars, deleteJoin, faults, translateElement,
                 translationCache, reader>>

\* The translation state a previous session left behind
PriorTranslationStates ==
  {None, Some(TranslationStateOf(TRUE, "es", NoSections))}

\* refs and state of the hook at mount
HookMounted ==
  [mounted |-> TRUE, queue |-> {}, controller |-> None,
   targetLanguage |-> "", debounce |-> None]

\* The hook has mounted: loadTranslationState awaits getTranslationState
InitTranslation ==
  /\ hist = HistInit
  /\ recordStores = [s \in StoreNames |-> Books]
  /\ translationStore \in [Books -> PriorTranslationStates]
  /\ forageProgress = [k \in Keys |-> None]
  /\ bookmarkStore = [b \in Books |-> None]
  /\ highlightStore = [k \in Keys |-> None]
  /\ localStorage = [bookmarks |-> [b \in Books |-> <<>>],
                     highlights |-> [k \in Keys |-> <<>>],
                     progress |-> [k \in Keys |-> None],
                     settings |-> None,
                     quota |-> "free", order |-> <<>>]
  /\ sessionStorage = [k \in Keys |-> None]
  /\ pending = << [fn |-> "loadTranslationState",
                   pc |-> "loadTranslationState_getTranslationState",
                   op |-> Op("translations", "get"), book |-> BookId] >>
  /\ deleteJoin = None
  /\ faults = MaxFaults
  /\ budget = [calls |-> MaxCalls, overlap |-> MaxInFlight]
  /\ ReaderMounted
  /\ hook = HookMounted
  /\ translationCache = [k \in CacheKeys |-> None]

NextTranslation ==
  \/ translateContent
  \/ setTargetLanguage
  \/ updateTranslationState
  \/ clearTranslation
  \/ unmount
  \/ \E i \in Slots : loadTranslationState_getTranslationState(i)
  \/ \E i \in Slots : translateContent_getTranslatedSection(i)
  \/ \E i \in Slots : translateText_getTranslatedSection(i)
  \/ \E i \in Slots : translateText_timeout(i)
  \/ \E i \in Slots : saveTranslatedSection_getTranslationState(i)
  \/ \E i \in Slots : saveTranslatedSection_setItem(i)
  \/ \E i \in Slots : saveTranslationState_getTranslationState(i)
  \/ \E i \in Slots : saveTranslationState_setItem(i)

SpecTranslation == InitTranslation /\ [][NextTranslation]_vars

\* The hook and the library's deleteBook in one session: the hook has
\* mounted and loaded its state, the library deletes the book only while no
\* storage call of the session is pending
MaxRequests == 3

InitCache ==
  /\ hist = HistInit
  /\ recordStores = [s \in StoreNames |-> Books]
  /\ translationStore \in [Books -> PriorTranslationStates]
  /\ forageProgress = [k \in Keys |-> None]
  /\ bookmarkStore = [b \in Books |-> None]
  /\ highlightStore = [k \in Keys |-> None]
  /\ localStorage = [bookmarks |-> [b \in Books |-> <<>>],
                     highlights |-> [k \in Keys |-> <<>>],
                     progress |-> [k \in Keys |-> None],
                     settings |-> None,
                     quota |-> "free", order |-> <<>>]
  /\ sessionStorage = [k \in Keys |-> None]
  /\ pending = <<>>
  /\ deleteJoin = None
  /\ faults = 1
  /\ budget = [calls |-> MaxRequests, overlap |-> 1]
  /\ ReaderMounted
  /\ hook = HookMounted
  /\ translationCache = [k \in CacheKeys |-> None]

NextCache ==
  \/ translateContent
  \/ clearTranslation
  \/ ClientDeleteBook
  \/ SettleDelete
  \/ \E i \in Slots : translateContent_getTranslatedSection(i)
  \/ \E i \in Slots : translateText_getTranslatedSection(i)
  \/ \E i \in Slots : translateText_timeout(i)
  \/ \E i \in Slots : saveTranslatedSection_getTranslationState(i)
  \/ \E i \in Slots : saveTranslatedSection_setItem(i)
  \/ \E i \in Slots : saveTranslationState_getTranslationState(i)
  \/ \E i \in Slots : saveTranslationState_setItem(i)

SpecCache == InitCache /\ [][NextCache]_vars

(***************************************************************************)
(* Full-text search (handleSearch).  A text is a sequence of UTF-16 code   *)
(* units; "I" stands for U+0130, whose lower case is two code units.       *)
(***************************************************************************)
MaxTextLen == 3      \* code units of a section's text
MaxSearches == 2     \* searches in one session
ContextLen == 1      \* code units of context on each side (100 in the source)
TextChars == {"a", "I"}
Spine == {1, 2}      \* book.spine.items, in scan order

RECURSIVE Strings(_, _)
Strings(chars, n) ==
  IF n = 0 THEN {<<>>}
  ELSE LET shorter == Strings(chars, n - 1)
       IN shorter \cup {Append(s, c) : s \in shorter, c \in chars}

SectionTexts == Strings(TextChars, MaxTextLen)
Queries == {<<>>, <<" ">>, <<"a">>, <<" ", "A">>, <<"I">>, <<"a", "a">>}

\* locations.percentageFromCfi for the references of one section: null
\* while the reference cannot be resolved
SectionPercentages == {None, Some(0), Some(1)}

\* String.prototype.toLowerCase
LowerOf(c) ==
  CASE c = "A" -> <<"a">>
    [] c = "I" -> <<"i", ".">>
    [] OTHER -> <<c>>

RECURSIVE toLowerCase(_)
toLowerCase(s) ==
  IF s = <<>> THEN <<>> ELSE LowerOf(Head(s)) \o toLowerCase(Tail(s))

\* String.prototype.trim
RECURSIVE trimStart(_)
trimStart(s) == IF s # <<>> /\ Head(s) = " " THEN trimStart(Tail(s)) ELSE s

RECURSIVE trimEnd(_)
trimEnd(s) ==
  IF s # <<>> /\ s[Len(s)] = " "
    THEN trimEnd(SubSeq(s, 1, Len(s) - 1)) ELSE s

trim(s) == trimEnd(trimStart(s))

\* String.prototype.slice(start, end) for start, end >= 0 (0-based, end
\* exclusive): empty when start is not before end or lies past the string
slice(s, start, end) ==
  LET e == Min(end, Len(s))
  IN IF start >= e THEN <<>> ELSE SubSeq(s, start + 1, e)

\* `query` occurs in `s` at the 0-based index i
OccursAt(s, query, i) ==
  /\ i >= 0
  /\ i + Len(query) <= Len(s)
  /\ SubSeq(s, i + 1, i + Len(query)) = query

\* String.prototype.indexOf(query, from), query not empty
indexOf(s, query, from) ==
  LET hits == {i \in from..(Len(s) - Len(query)) : OccursAt(s, query, i)}
  IN IF hits = {} THEN -1
     ELSE CHOOSE i \in hits : \A j \in hits : i <= j

\* item.cfiFromRange(index, index + normalizedQuery.length): the engine
\* yields a reference for the range
cfiFromRange(item, from, to) == [item |-> item, from |-> from, to |-> to]

\* book.locations.percentageFromCfi(cfi)
percentageFromCfi(cfi) == reader.index[cfi.item]

\* The while loop of handleSearch over one section's text, from the
\* occurrence at `index` of the normalized text on
RECURSIVE ScanFrom(_, _, _, _)
ScanFrom(item, text, normalizedQuery, index) ==
  IF index = -1 THEN <<>>
  ELSE LET start == Max(0, index - ContextLen)
           end == Min(Len(text), index + Len(normalizedQuery) + ContextLen)
           excerpt == trim(slice(text, start, end))
           cfi == cfiFromRange(item, index, index + Len(normalizedQuery))
       IN << [cfi |-> cfi, excerpt |-> excerpt,
              percentage |-> percentageFromCfi(cfi)] >>
          \o ScanFrom(item, text, normalizedQuery,
                      indexOf(toLowerCase(text), normalizedQuery, index + 1))

\* The results of one spine item whose content loaded
ItemResults(item, normalizedQuery) ==
  LET text == reader.spine[item]
  IN ScanFrom(item, text, normalizedQuery,
              indexOf(toLowerCase(text), normalizedQuery, 0))

\* (a.percentage || 0)
SortKey(result) ==
  IF result.percentage = None THEN 0 ELSE Val(result.percentage)

\* One step of the sort: `result` goes behind the results that do not come
\* after it
RECURSIVE InsertSorted(_, _)
InsertSorted(sorted, result) ==
  IF sorted = <<>> THEN <<result>>
  ELSE IF SortKey(Head(sorted)) <= SortKey(result)
    THEN <<Head(sorted)>> \o InsertSorted(Tail(sorted), result)
    ELSE <<result>> \o sorted

Unsorted(allResults) == allResults

\* allResults.sort((a, b) => (a.percentage || 0) - (b.percentage || 0))
RECURSIVE sortedResults(_)
sortedResults(allResults) ==
  IF allResults = <<>> THEN <<>>
  ELSE InsertSorted(sortedResults(SubSeq(allResults, 1, Len(allResults) - 1)),
                    allResults[Len(allResults)])

\* handleSearch suspended at an await: generate(1024), or the load of `item`
SearchCall(pc, op, normalizedQuery, item, allResults, complete) ==
  Call("handleSearch", pc, op, BookId, FALSE,
       [query |-> normalizedQuery, item |-> item, complete |-> complete],
       allResults, None)

LoadCall(normalizedQuery, item, allResults, complete) ==
  SearchCall("handleSearch_load", Op("spine", "get"), normalizedQuery, item,
             allResults, complete)

\* History of the last search
SearchNoted(h, state, query, complete) ==
  [h EXCEPT !.search = [state |-> state, query |-> query,
                        complete |-> complete]]

\* handleSearch up to its first await; without a book or with a query that
\* trims to nothing it returns at once
handleSearch ==
  /\ Event
  /\ \E searchQuery \in Queries :
       LET normalizedQuery == toLowerCase(trim(searchQuery))
       IN IF ~reader.rendition \/ trim(searchQuery) = <<>>
            THEN /\ hist' = SearchNoted(hist, "returned", normalizedQuery,
                                        FALSE)
                 /\ UNCHANGED <<pending, reader>>
            ELSE /\ reader' = [reader EXCEPT !.isSearching = TRUE,
                                             !.searchResults = <<>>]
                 /\ pending' = Append(pending,
                      IF reader.locations
                        THEN LoadCall(normalizedQuery, 1, <<>>, TRUE)
                        ELSE SearchCall("handleSearch_generate",
                                        Op("locations", "generate"),
                                        normalizedQuery, 1, <<>>, TRUE))
                 /\ hist' = SearchNoted(hist, "started", normalizedQuery,
                                        FALSE)
  /\ UNCHANGED <<storeVars, translateElement>>

\* handleSearch after `await book.locations.generate(1024)`: a rejection
\* goes to the outer catch, then the finally
handleSearch_generate(i) ==
  /\ Ready(i, "handleSearch_generate")
  /\ LET p == pending[i]
     IN \E ok \in Outcomes :
          /\ Inject(ok)
          /\ IF ok
               THEN /\ reader' = [reader EXCEPT !.locations = TRUE,
                                                !.stale = FALSE]
                    /\ pending' = Append(Rest(i),
                         LoadCall(p.arg.query, 1, <<>>, TRUE))
                    /\ UNCHANGED hist
               ELSE /\ reader' = [reader EXCEPT !.isSearching = FALSE]
                    /\ pending' = Rest(i)
                    /\ hist' = SearchNoted(hist, "failed", p.arg.query,
                                           FALSE)
  /\ UNCHANGED <<storeVars, deleteJoin, envVars>>

\* handleSearch after `await book.spine.get(item.href).load(...)`: a
\* rejection is caught inside the loop and the item skipped; after the last
\* item the results are sorted and set
handleSearch_load(i) ==
  /\ Ready(i, "handleSearch_load")
  /\ LET p == pending[i]
         item == p.arg.item
     IN \E ok \in Outcomes :
          LET allResults == IF ok
                THEN p.list \o ItemResults(item, p.arg.query)
                ELSE p.list
              complete == p.arg.complete /\ ok
          IN /\ Inject(ok)
             /\ IF item + 1 \in Spine
                  THEN /\ pending' = Append(Rest(i),
                            LoadCall(p.arg.query, item + 1, allResults,
                                     complete))
                       /\ UNCHANGED <<reader, hist>>
                  ELSE /\ pending' = Rest(i)
                       /\ reader' = [reader EXCEPT
                            !.searchResults = sortedResults(allResults),
                            !.isSearching = FALSE]
                       /\ hist' = SearchNoted(hist, "done", p.arg.query,
                                              complete)
  /\ UNCHANGED <<storeVars, deleteJoin, envVars>>

\* A book is open in the reader; the user waits for a search to end before
\* the next
InitSearch ==
  /\ EmptyStorage
  /\ pending = <<>>
  /\ deleteJoin = None
  /\ faults = MaxFaults
  /\ budget = [calls |-> MaxSearches, overlap |-> 1]
  /\ translateElement = "original"
  /\ \E spine \in [Spine -> SectionTexts],
        index \in [Spine -> SectionPercentages],
        locations \in BOOLEAN :
       reader = [bookmarks |-> <<>>, highlights |-> <<>>,
                 isCurrentPageBookmarked |-> FALSE, location |-> None,
                 annotations |-> {},
                 rendition |-> TRUE, locations |-> locations,
                 isLoading |-> FALSE, error |-> None, shown |-> None,
                 fontSize |-> DefaultFontSize, stale |-> FALSE,
                 searchResults |-> <<>>, isSearching |-> FALSE,
                 spine |-> spine, index |-> index,
                 toc |-> BookToc, currentChapter |-> ""]
  /\ HookUnused
  /\ hist = HistInit

NextSearch ==
  \/ handleSearch
  \/ \E i \in Slots : handleSearch_generate(i)
  \/ \E i \in Slots : handleSearch_load(i)

SpecSearch == InitSearch /\ [][NextSearch]_vars

(***************************************************************************)
(* Properties.                                                             *)
(***************************************************************************)
Getters == {"getBookmarks", "getHighlights", "getReadingProgress"}

\* Something of the book is still stored in some tier
DataRemains(bookId) ==
  \/ \E st \in StoreNames : bookId \in recordStores[st]
  \/ IsSome(translationStore[bookId])
  \/ StoredBookmarks(bookId) # <<>>
  \/ localStorage.bookmarks[bookId] # <<>>
  \/ \E v \in Variants :
       \/ IsSome(highlightStore[Key(bookId, v)])
            /\ Val(highlightStore[Key(bookId, v)]) # <<>>
       \/ localStorage.highlights[Key(bookId, v)] # <<>>
       \/ IsSome(localStorage.progress[Key(bookId, v)])
       \/ IsSome(sessionStorage[Key(bookId, v)])
       \/ IsSome(forageProgress[Key(bookId, v)])

\* C1: two toggles of the bookmark at one position, the second after the
\* first has completed, leave the book's stored bookmark set as it was
\* before the pair.
C1_ToggleTwiceRestores ==
  hist.toggle.state = "done"
    => CfisOf(StoredBookmarks(BookId)) = hist.toggle.start

\* C2: after deleteBook(id) has completed (and nothing was saved for the book
\* since), every getBookmarks, getHighlights and getReadingProgress call for
\* the book returns an empty list / null.
C2_GetAfterDeleteIsEmpty ==
  (hist.lastResult.del /\ hist.lastResult.fn \in Getters)
    => hist.lastResult.value = None

\* The record stored in the primary tier for the position of the second of
\* two overlapping upserts
RaceStored ==
  LET r == Val(hist.race)
      stored == IF r.fn = "saveBookmark"
                  THEN bookmarkStore[r.book]
                  ELSE highlightStore[Key(r.book, r.tr)]
  IN IF IsSome(stored) /\ HasCfi(Val(stored), r.item.cfi)
       THEN Some(Val(stored)[findIndex(Val(stored), r.item.cfi)])
       ELSE None

\* C3: two upserts of one (book, variant, position) record submitted A then
\* B, B without waiting for A: once both have finished (no storage operation
\* having failed) the persisted record is B's.
C3_LastSubmittedUpsertWins ==
  (IsSome(hist.race) /\ pending = <<>> /\ faults = MaxFaults)
    => RaceStored = Some(Val(hist.race).item)

C5_DetourRestoresBookmarks ==
  hist.detour.state = "back"
    => Elems(StoredBookmarks(BookId)) = Elems(hist.detour.bookmarks)

\* C6: each (book, variant) has exactly one progress record, equal to the
\* most recent accepted write (none when no write was accepted), in
\* localStorage and in what getReadingProgress returns.
C6_OneRecordLatestAccepted ==
  \A k \in Keys :
    /\ localStorage.progress[k] = hist.accepted[k]
    /\ getReadingProgressResult(k[1], k[2]) = hist.accepted[k]

\* C7: deleteBook resolves only if no step of its cascade failed and nothing
\* of the book is still stored.
C7_DeleteResolvesOnlyWhenAllGone ==
  \A b \in Books :
    (hist.deleteOutcome = "resolved" /\ b \in hist.deleted)
      => (~hist.deleteStepFailed /\ ~DataRemains(b))

\* C8: a saveReadingProgress call whose progress has an empty position or a
\* percentage that is not a finite number within [0,100] changes no storage
\* tier and starts no write.
C8_InvalidProgressWritesNothing ==
  [][(budget'.calls < budget.calls
        /\ hist'.lastResult.fn = "saveReadingProgress"
        /\ ~Accepted(Val(hist'.lastResult.arg)))
       => UNCHANGED <<localStorage, sessionStorage, forageProgress, pending>>]_vars

\* C9: at most one translateContent call per content key is in flight.
C9_OneRequestPerKey ==
  \A i, j \in 1..Len(pending) :
    (IsTranslation(pending[i]) /\ IsTranslation(pending[j])
       /\ pending[i].key = pending[j].key) => i = j

\* C10: no result of a translation that was in flight when the variant was
\* switched or the hook unmounted is written afterwards, neither into the
\* in-memory cache nor into the persisted sections.
C10_NoWriteAfterCancel == ~hist.staleWrite

\* The bookmark call the toggle has just started, if this step is a toggle
\* made while no other bookmark call was in flight
ToggleCall ==
  IF /\ Len(pending') = Len(pending) + 1
     /\ pending'[Len(pending')].fn \in {"saveBookmark", "removeBookmark"}
     /\ AnnotationsQuiet
    THEN Some(pending'[Len(pending')])
    ELSE None

\* C11: the toggle removes the bookmark exactly when the stored bookmarks of
\* the book contain one at the current position, and otherwise creates one
\* at that position labelled with the current percentage.
C11_ToggleAgreesWithStore ==
  [][IsSome(ToggleCall) =>
       LET location == Val(reader.location)
       IN IF HasCfi(StoredBookmarks(BookId), location.cfi)
            THEN /\ Val(ToggleCall).fn = "removeBookmark"
                 /\ Val(ToggleCall).arg.cfi = location.cfi
            ELSE /\ Val(ToggleCall).fn = "saveBookmark"
                 /\ Val(ToggleCall).arg =
                      BookmarkOf(location.cfi, location.percentage)]_vars

\* The last call to return was a read of bookmarks or highlights, and no
\* call is in flight
ReadReturned ==
  /\ hist.lastResult.fn \in {"getBookmarks", "getHighlights"}
  /\ pending = <<>>

\* The fast tier's entry for the list a result is about
FastCopy(r) ==
  IF r.fn = "getBookmarks" THEN bookmarkStore[r.book]
                           ELSE highlightStore[Key(r.book, r.tr)]

\* What the fallback tier answers for the list a result is about
FallbackCopy(r) ==
  IF r.fn = "getBookmarks"
    THEN localStorage.bookmarks[r.book]
    ELSE ValidatedHighlights(localStorage.highlights[Key(r.book, r.tr)])

\* C12: a read of bookmarks or highlights made while the fast tier holds a
\* copy of the list returns that copy, never an older one of the fallback
\* tier, whatever storage read or fallback write failed.
C12_ReadReflectsFastTier ==
  (ReadReturned /\ IsSome(FastCopy(hist.lastResult)))
    => hist.lastResult.value = Val(FastCopy(hist.lastResult))

\* C13: while both tiers hold the same list (or only the fallback holds
\* it), a read returns that list whichever tier answered.
C13_SameListFromEitherTier ==
  (/\ ReadReturned
   /\ IsSome(FastCopy(hist.lastResult))
        => Val(FastCopy(hist.lastResult)) = FallbackCopy(hist.lastResult))
    => hist.lastResult.value = FallbackCopy(hist.lastResult)

\* C14: once every variant change has been handled (nothing having been
\* highlighted or removed since the first of them), the overlays drawn on
\* the rendition are exactly the stored highlights of the variant selected.
C14_OverlaysOfSelectedVariant ==
  (hist.switched /\ AnnotationsQuiet /\ translateElement # "")
    => reader.annotations =
         CfisOf(StoredHighlights(BookId, IsTranslated(translateElement)))

\* C15: on every variant switch whose target variant has a stored progress
\* record, the reader moves to that record's position: once the change is
\* handled, the rendition shows the record's cfi or the position calculated
\* from its percentage
C15_SwitchMovesToStoredProgress ==
  (hist.change.state = "handled" /\ IsSome(hist.change.progress))
    => LET progress == Val(hist.change.progress)
       IN reader.shown \in {Some(CfiTarget(progress.cfi)),
                            Some(CfiFromPercentage(progress.percentage.v))}

\* C16: the first time the book is viewed in a translated language that was
\* never selected before, the highlight list loaded for it is empty, even
\* when another translated language already has highlights
C16_FirstViewLoadsNoHighlights ==
  IsSome(hist.firstList) => Val(hist.firstList) = <<>>

\* C17: once a render call has failed and the reader shows its error state,
\* no navigation call (next, previous, chapter, bookmark, highlight, search
\* hit) reaches the rendering engine
C17_NoEngineCallInErrorState == ~hist.callInError

\* C18: loadBook displays the book from the start of the document exactly
\* when getReadingProgress returns null; for every stored record, whatever
\* its percentage, the position displayed is derived from the record
C18_StartOnlyWithoutProgress ==
  IsSome(hist.load) =>
    LET progress == Val(hist.load).progress
        target == Val(hist.load).target
    IN /\ (target = StartTarget) <=> (progress = None)
       /\ IsSome(progress) =>
            target \in {CfiTarget(Val(progress).cfi),
                        CfiFromPercentage(Val(progress).percentage.v)}

\* C19: a jump to a bookmark first renders at the bookmark's stored cfi; the
\* stored percentage is used only after that render failed or landed more
\* than 0.5 percentage points away
C19_BookmarkJumpRendersReferenceFirst ==
  (hist.nav.handler = "handleBookmarkClick" /\ hist.nav.calls # <<>>) =>
    LET calls == hist.nav.calls
    IN /\ calls[1].target = CfiTarget(hist.nav.cfi)
       /\ \A j \in 2..Len(calls) :
            calls[j].target.kind = "percentage" =>
              \/ calls[j - 1].result = "failed"
              \/ /\ calls[j - 1].result = "shown"
                 /\ Abs(PercentageFromCfi(hist.nav.cfi)
                        - hist.nav.percentage) > 500

\* C20: when the jump to an annotation has failed at its cfi and failed again
\* at its percentage, the reader tries the section href, and when that fails
\* too it shows a could-not-navigate state
C20_FallsBackToSectionHref ==
  LET calls == hist.nav.calls
      Failed(kind) == \E j \in 1..Len(calls) :
                        /\ calls[j].target.kind = kind
                        /\ calls[j].result = "failed"
  IN (/\ hist.nav.done
      /\ hist.nav.handler \in {"handleBookmarkClick", "handleHighlightClick"}
      /\ Failed("cfi") /\ Failed("percentage"))
       => /\ \E j \in 1..Len(calls) : calls[j].target.kind = "href"
          /\ Failed("href") => IsSome(reader.error)

\* C21: after a change of the font size (or margin), the location index is
\* rebuilt before it is next used to convert between a position and a
\* percentage
C21_IndexRebuiltBeforeUse == ~hist.staleUse

\* C22: a translation the in-memory cache holds for a section keeps being
\* served for later requests of its key, and is invalidated only by
\* clearTranslation() or by deleting the book: a request for a section made
\* after either of them is never answered from an entry cached before it.
C22_InvalidatedNeverServed == "x" \notin hist.servedInvalid

\* What a completed search shows for the query it ran with
Occurrences(item, normalizedQuery) ==
  {i \in 0..(2 * MaxTextLen) :
     OccursAt(toLowerCase(reader.spine[item]), normalizedQuery, i)}

ResultsOf(item) ==
  {j \in 1..Len(reader.searchResults) :
     reader.searchResults[j].cfi.item = item}

Contains(s, part) == \E i \in 0..Len(s) : OccursAt(s, part, i)

\* C23: a search with a non-empty query whose sections all loaded shows
\* exactly one result per occurrence of the lower-cased query in the
\* lower-cased text of the sections, each with a non-empty excerpt that
\* contains the matched text.
C23_OneResultPerOccurrence ==
  (hist.search.state = "done" /\ hist.search.complete) =>
    /\ \A item \in Spine :
         /\ Cardinality(ResultsOf(item)) =
              Cardinality(Occurrences(item, hist.search.query))
         /\ {reader.searchResults[j].cfi.from : j \in ResultsOf(item)} =
              Occurrences(item, hist.search.query)
    /\ \A j \in 1..Len(reader.searchResults) :
         /\ reader.searchResults[j].excerpt # <<>>
         /\ Contains(toLowerCase(reader.searchResults[j].excerpt),
                     hist.search.query)

\* C24: the result list a search produces is ordered by non-decreasing
\* resolved percentage, whatever the order the sections were scanned in.
C24_ResultsOrderedByPercentage ==
  hist.search.state = "done" =>
    \A j, k \in 1..Len(reader.searchResults) :
      (/\ j < k
       /\ reader.searchResults[j].percentage # None
       /\ reader.searchResults[k].percentage # None)
        => Val(reader.searchResults[j].percentage)
             <= Val(reader.searchResults[k].percentage)

\* C24 witness: a search has shown results of both sections, the section
\* scanned first lying behind the other in the book.
C24_Witness ==
  /\ hist.search.state = "done"
  /\ ResultsOf(1) # {} /\ ResultsOf(2) # {}
  /\ reader.index[1] = Some(1)
  /\ reader.index[2] = Some(0)

\* C25: after a search invoked with an empty or whitespace-only query, or
\* one whose location index could not be built, the search result set is
\* empty, whatever an earlier search left.
C25_NoResultsWithoutQueryOrIndex ==
  hist.search.state \in {"returned", "failed"} => reader.searchResults = <<>>

Mutators ==
  {"saveBookmark", "removeBookmark", "saveHighlight", "removeHighlight",
   "saveReadingProgress"}

\* C26: saveBookmark, removeBookmark, saveHighlight, removeHighlight and
\* saveReadingProgress never raise to their caller, whichever storage read
\* or write fails.
C26_MutatorsNeverRaise == hist.raised \cap Mutators = {}

\* C26 witness: a save or remove has returned after a storage operation it
\* awaited had rejected.
C26_Witness ==
  /\ hist.lastResult.fn \in Mutators
  /\ hist.lastResult.failed

\* C27: translateContent never rejects; when the translation is aborted and
\* when the request is a duplicate for a key already queued, it resolves to
\* exactly the input content.
C27_ResolvesToContent ==
  (hist.returned.aborted \/ hist.returned.case = "duplicate")
    => hist.returned.value = Text(hist.returned.content)

\* No two entries of the list have the same position
OnePerPosition(list) ==
  \A i, j \in 1..Len(list) : list[i].cfi = list[j].cfi => i = j

\* This step returns from the call `fn`, none of whose storage operations
\* rejected
Completes(fn) ==
  /\ pending # <<>> /\ pending' = <<>>
  /\ pending[1].fn = fn
  /\ hist'.lastResult.fn = fn
  /\ ~hist'.lastResult.failed

\* C28: after any sequence of awaited saveBookmark and removeBookmark calls
\* the persisted bookmark list of a book holds at most one bookmark per
\* position: a save at an existing position replaces the entry where it
\* is, a save at a new position appends one, and a remove leaves none at
\* the position (stated for the calls none of whose storage operations
\* rejected).
C28_OneBookmarkPerPosition ==
  /\ [](\A b \in Books : /\ OnePerPosition(StoredBookmarks(b))
                          /\ OnePerPosition(localStorage.bookmarks[b]))
  /\ [][LET b == pending[1].book
            old == StoredBookmarks(b)
            new == IF IsSome(bookmarkStore'[b]) THEN Val(bookmarkStore'[b])
                   ELSE localStorage'.bookmarks[b]
            item == pending[1].arg
        IN /\ Completes("saveBookmark") =>
                IF HasCfi(old, item.cfi)
                  THEN /\ Len(new) = Len(old)
                       /\ \A i \in 1..Len(old) :
                            new[i] = IF old[i].cfi = item.cfi THEN item
                                                              ELSE old[i]
                  ELSE new = old \o <<item>>
           /\ Completes("removeBookmark") =>
                /\ ~HasCfi(new, item.cfi)
                /\ \A i \in 1..Len(old) :
                     old[i].cfi # item.cfi => old[i] \in Elems(new)
                /\ Len(new) <= Len(old)]_vars

\* C28 witness: an awaited save has replaced the bookmark of a position
\* that is not the last of the list.
C28_Witness ==
  /\ pending = <<>>
  /\ hist.lastResult.fn = "saveBookmark"
  /\ ~hist.lastResult.failed
  /\ LET list == StoredBookmarks(hist.lastResult.book)
     IN /\ Len(list) = 2
        /\ list[1] = Val(hist.lastResult.arg)
        /\ list[1].text = 2

\* The record, if there is one, has a percentage within [0, 100]
WithinRange(record) ==
  IsSome(record) =>
    /\ Val(record).percentage.t = "number"
    /\ Val(record).percentage.v >= 0
    /\ Val(record).percentage.v <= 100000

\* C29: every progress record saveReadingProgress persists, in any tier,
\* and every record getReadingProgress returns has a percentage within
\* [0, 100], whatever value of type number the caller passed.
C29_ProgressWithinRange ==
  \A k \in Keys :
    /\ WithinRange(localStorage.progress[k])
    /\ WithinRange(sessionStorage[k])
    /\ WithinRange(forageProgress[k])
    /\ WithinRange(getReadingProgressResult(k[1], k[2]))

\* The two saves of hist.pair were the last calls made, both have completed
\* and no storage operation has rejected
PairCompleted ==
  /\ IsSome(hist.pair)
  /\ pending = <<>>
  /\ budget.calls = Val(hist.pair).calls
  /\ faults = MaxFaults

\* C30: when two saveBookmark (or two saveHighlight) calls for different
\* positions of the same partition are issued without awaiting the first,
\* both annotations are in the persisted list once both calls have
\* completed, under every interleaving of their reads and writes.
C30_BothConcurrentSavesKept ==
  PairCompleted =>
    LET pair == Val(hist.pair)
        list == IF pair.fn = "saveBookmark"
                  THEN StoredBookmarks(pair.book)
                  ELSE StoredHighlights(pair.book, pair.tr)
    IN {pair.first, pair.second} \subseteq Elems(list)

\* The reader handler that resumes in this step, when the step ends the only
\* storage call in flight: the annotation change it made has completed
HandlerCompleted ==
  IF /\ Len(pending) = 1 /\ pending' = <<>>
     /\ pending[1].caller # None
    THEN Some(Val(pending[1].caller).h)
    ELSE None

\* The lists shown hold one entry per position and exactly the entries of
\* the persisted lists of the book, the highlights those of the variant
\* the widget selects
ShownIsPersisted ==
  /\ OnePerPosition(reader.bookmarks)
  /\ OnePerPosition(reader.highlights)
  /\ Elems(reader.bookmarks) = Elems(StoredBookmarks(BookId))
  /\ Elems(reader.highlights) =
       Elems(StoredHighlights(BookId, IsTranslated(translateElement)))

\* The handler that completes acted on the lists as they are shown and
\* persisted: an add is of a position that has no entry yet
ActedOnShown ==
  LET c == Val(pending[1].caller)
  IN /\ ShownIsPersisted
     /\ c.list = IF c.h \in {"addBookmark_saveBookmark",
                             "addBookmark_removeBookmark"}
                   THEN reader.bookmarks ELSE reader.highlights
     /\ c.h \in {"addBookmark_saveBookmark", "handleHighlight"}
          => ~HasCfi(c.list, c.item.cfi)

\* C31: after every completed bookmark or highlight add or remove of the
\* reader, the write of which may have failed, the bookmark and highlight
\* lists shown hold exactly the entries of the persisted lists of the active
\* partition: no position twice, no entry that was not persisted.
C31_ShownListsArePersisted ==
  [][(/\ IsSome(HandlerCompleted)
      /\ Val(HandlerCompleted) \in
           {"addBookmark_saveBookmark", "addBookmark_removeBookmark",
            "handleHighlight", "handleHighlightDelete"}
      /\ ActedOnShown)
       => ShownIsPersisted']_vars

(***************************************************************************)
(* A later session.  sessionStorage starts empty; the progress record an   *)
(* earlier session left for the Original variant is in localStorage and    *)
(* the localforage backup, or (safeStorageSet having given up on a full    *)
(* localStorage when it was saved) in the backup alone.                    *)
(***************************************************************************)
ProgressTiers == {"none", "backup", "all"}

InitRestart ==
  /\ recordStores = [s \in StoreNames |-> Books]
  /\ translationStore = [b \in Books |-> None]
  /\ bookmarkStore = [b \in Books |-> None]
  /\ highlightStore = [k \in Keys |-> None]
  /\ sessionStorage = [k \in Keys |-> None]
  /\ \E tiers \in ProgressTiers :
       LET record == ValidatedProgress(ProgressOf("x", Num(25000), FALSE))
           left(in) == [k \in Keys |->
                          IF k = Key(BookId, FALSE) /\ tiers \in in
                            THEN Some(record) ELSE None]
       IN /\ forageProgress = left({"backup", "all"})
          /\ localStorage = [bookmarks |-> [b \in Books |-> <<>>],
                             highlights |-> [k \in Keys |-> <<>>],
                             progress |-> left({"all"}),
                             settings |-> None,
                             quota |-> "free",
                             order |-> IF tiers = "all" THEN <<"progress">>
                                                        ELSE <<>>]
  /\ pending = <<>>
  /\ deleteJoin = None
  /\ faults = MaxFaults
  /\ budget = [calls |-> MaxCalls, overlap |-> MaxInFlight]
  /\ ReaderMounted
  /\ HookUnused
  /\ hist = HistInit

SpecRestart == InitRestart /\ [][NextProgress]_vars

\* This step is a call of getReadingProgress
GetProgressCalled ==
  /\ budget'.calls < budget.calls
  /\ hist'.lastResult.fn = "getReadingProgress"

\* C32: two consecutive getReadingProgress calls for one (book, variant),
\* no save or remove between them, return the same result, whichever of
\* localStorage, sessionStorage and the localforage backup holds the record.
C32_RepeatedGetSameResult ==
  [][(/\ GetProgressCalled
      /\ hist.lastResult.fn = "getReadingProgress"
      /\ hist.lastResult.book = hist'.lastResult.book
      /\ hist.lastResult.tr = hist'.lastResult.tr)
       => hist'.lastResult.value = hist.lastResult.value]_vars

\* The lookup in the localforage backup that settles in this step
LookupSettled ==
  IF \E i \in 1..Len(pending) :
       pending[i].fn = "getReadingProgress" /\ pending' = Rest(i)
    THEN Some(CHOOSE i \in 1..Len(pending) :
                pending[i].fn = "getReadingProgress" /\ pending' = Rest(i))
    ELSE None

\* C33: a getReadingProgress call for one (book, variant) never changes the
\* stored progress of another (book, variant), saves for other keys made
\* while its backup lookup was pending included: with valid records in
\* localStorage, what getReadingProgress finds for every other key is the
\* same before and after the lookup.
C33_GetLeavesOtherKeys ==
  [][(/\ IsSome(LookupSettled)
      /\ \A k \in Keys :
           /\ WithinRange(localStorage.progress[k])
           /\ WithinRange(pending[Val(LookupSettled)].list[k]))
       =>
       LET p == pending[Val(LookupSettled)]
       IN \A k \in Keys \ {Key(p.book, p.tr)} :
            getReadingProgressResult(k[1], k[2])' =
              getReadingProgressResult(k[1], k[2])]_vars

\* clearTranslation was the last call made on the hook, nothing but
\* translations was in flight when it was made, every call has settled and
\* no storage operation has rejected
ClearSettled ==
  /\ IsSome(hist.clear)
  /\ budget.calls = Val(hist.clear).calls
  /\ pending = <<>>
  /\ faults = MaxFaults

\* C34: once clearTranslation has completed and every translation in flight
\* when it was called has settled, the persisted translation state has
\* isTranslated = false, an empty target language and no translated section.
C34_ClearedStatePersists ==
  ClearSettled =>
    translationStore[BookId] = Some(TranslationStateOf(FALSE, "", NoSections))

\* C35: whatever the target-language changes, translateContent(content,
\* lang, cfi) never returns text produced for another target language (it
\* returns the content or a translation into lang), and the in-memory cache
\* never holds under lang text produced for another language.
C35_TranslationOfRequestedLanguage ==
  /\ hist.returned.value.lang \in {"", hist.returned.language}
  /\ \A k \in CacheKeys :
       IsSome(translationCache[k]) => Val(translationCache[k]).lang = k[2]

\* The content key of the translateContent call that creates its
\* AbortController in this step, None when no call does
StartedKey ==
  IF hook'.controller # hook.controller /\ IsSome(hook'.controller)
    THEN LET id == Val(hook'.controller)
             all == pending \o pending'
             at == {i \in 1..Len(all) : IsTranslation(all[i]) /\ all[i].id = id}
         IN IF at # {} THEN Some(all[CHOOSE i \in at : TRUE].key)
                       ELSE Some(hist'.returned.content)
    ELSE None

\* The translation `r` is in flight in `pend`, its signal not aborted
Running(pend, r) ==
  \E j \in 1..Len(pend) :
    /\ IsTranslation(pend[j])
    /\ pend[j].id = r.id
    /\ ~pend[j].aborted

\* C36: starting a translation for one content key never cancels, and never
\* makes fail, a translation in flight for another content key: every such
\* translation is still in flight, its signal not aborted, after the step.
C36_OtherKeysKeepTranslating ==
  [][IsSome(StartedKey) =>
       \A i \in 1..Len(pending) :
         (/\ IsTranslation(pending[i])
          /\ pending[i].key # Val(StartedKey)
          /\ Running(pending, pending[i]))
           => Running(pending', pending[i])]_vars

\* The step resumes the handleHighlightClick call pending[i], suspended at pc
ClickResumed(i, pc) ==
  /\ pending[i].fn = "handleHighlightClick"
  /\ pending[i].pc = pc
  /\ \/ pending' = Rest(i)
     \/ /\ Len(pending') = Len(pending)
        /\ SubSeq(pending', 1, Len(pending) - 1) = Rest(i)

\* The step hands a navigation by the stored percentage of the highlight of
\* pending[i] to the engine
NavigatesByPercentage(i) ==
  /\ Len(pending') = Len(pending)
  /\ SubSeq(pending', 1, Len(pending) - 1) = Rest(i)
  /\ pending'[Len(pending')].fn = "handleHighlightClick"
  /\ pending'[Len(pending')].pc = "navigateToPercentage_display"
  /\ pending'[Len(pending')].arg.target =
       CfiFromPercentage(ValidPercentage(Val(pending[i].arg.item).percentage))

\* The percentage `actual` of the position landed on is more than 0.5 away
\* from the stored percentage
Off(actual, stored) == actual - stored > 500 \/ stored - actual > 500

\* C37: handleHighlightClick first renders at the stored position reference
\* of the highlight; it navigates by the stored percentage afterwards when
\* the direct navigation threw or the percentage of the position landed on
\* differs from the stored one by more than 0.5 (the location index being
\* there), and in no other case.
C37_ReferenceFirstThenPercentage ==
  /\ [](\A i \in 1..Len(pending) :
          pending[i].pc = "handleHighlightClick_display"
            => pending[i].arg.target =
                 CfiTarget(Val(pending[i].arg.item).cfi))
  /\ [](hist.nav.handler = "handleHighlightClick" /\ hist.nav.calls # <<>>
          => hist.nav.calls[1].target = CfiTarget(hist.nav.cfi))
  /\ [][\A i \in 1..Len(pending) :
          LET stored == Val(pending[i].arg.item).percentage
          IN /\ ClickResumed(i, "handleHighlightClick_generate")
                  => ~NavigatesByPercentage(i)
             /\ ClickResumed(i, "handleHighlightClick_display")
                  => (NavigatesByPercentage(i)
                        <=> faults' # faults /\ reader.locations)
             /\ ClickResumed(i, "handleHighlightClick_wait")
                  => /\ NavigatesByPercentage(i)
                          => \E actual \in PercentagesShown : Off(actual, stored)
                     /\ (/\ reader.locations
                         /\ \A actual \in PercentagesShown : Off(actual, stored))
                          => NavigatesByPercentage(i)]_vars
  /\ [][\A j \in 1..Len(pending') :
          (/\ pending'[j].fn = "handleHighlightClick"
           /\ pending'[j].pc = "navigateToPercentage_display"
           /\ j > Len(pending) - 1)
            => \E i \in 1..Len(pending) :
                 \/ ClickResumed(i, "handleHighlightClick_display")
                 \/ ClickResumed(i, "handleHighlightClick_wait")
                 \/ /\ pending[i].pc = "navigateToPercentage_display"
                    /\ pending'[j] = pending[i]]_vars

\* C37 witness: a highlight was clicked, the rendition showed its reference,
\* and the handler then navigated by the stored percentage, which the
\* rendition shows.
C37_Witness ==
  /\ hist.nav.handler = "handleHighlightClick"
  /\ hist.nav.done
  /\ Len(hist.nav.calls) = 2
  /\ hist.nav.calls[1] =
       [target |-> CfiTarget(hist.nav.cfi), result |-> "shown"]
  /\ hist.nav.calls[2] =
       [target |-> CfiFromPercentage(hist.nav.percentage), result |-> "shown"]

(***************************************************************************)
(* Opening a book: loadBook from the mount of the viewer on, the user      *)
(* turning pages as soon as there is a rendition.  Every promise of the    *)
(* engine and of the storage settles: each pending step is taken once it   *)
(* stays enabled.                                                          *)
(***************************************************************************)
NextLoad ==
  \/ \E i \in Slots : loadBook_ready(i)
  \/ \E i \in Slots : loadBook_generate(i)
  \/ \E i \in Slots : loadBook_display(i)
  \/ \E i \in Slots : getReadingProgress_getItem(i)
  \/ \E i \in Slots : saveReadingProgress_setItem(i)
  \/ \E i \in Slots : rendition_settle(i)
  \/ locationChanged
  \/ handleTranslationChange
  \/ \E i \in Slots : getHighlights_getItem(i)
  \/ \E i \in Slots : getHighlights_setItem(i)
  \/ goToNext
  \/ goToPrevious

SpecLoad ==
  /\ InitNavigation
  /\ [][NextLoad]_vars
  /\ WF_vars(\E i \in Slots : loadBook_ready(i))
  /\ WF_vars(\E i \in Slots : loadBook_generate(i))
  /\ WF_vars(\E i \in Slots : loadBook_display(i))
  /\ WF_vars(\E i \in Slots : getReadingProgress_getItem(i))
  /\ WF_vars(\E i \in Slots : saveReadingProgress_setItem(i))
  /\ WF_vars(\E i \in Slots : rendition_settle(i))
  /\ WF_vars(\E i \in Slots : getHighlights_getItem(i))
  /\ WF_vars(\E i \in Slots : getHighlights_setItem(i))

\* The loadBook calls in flight
Loading(pend) == {j \in 1..Len(pend) : pend[j].fn = "loadBook"}

\* C38: with the viewer mounted and every engine promise settling, opening
\* a book always leaves the Loading state: loadBook eventually clears the
\* loading flag, ending with the book displayed or with an error message
\* shown, and a failed load is never started again.
C38_LoadingEnds ==
  /\ reader.isLoading ~> ~reader.isLoading
  /\ [](~reader.isLoading =>
          /\ Loading(pending) = {}
          /\ IsSome(reader.error) \/ IsSome(reader.shown))
  /\ [][/\ Cardinality(Loading(pending')) <= Cardinality(Loading(pending))
        /\ ~reader.isLoading => ~reader'.isLoading]_vars

\* C38 witness: the display of the book was rejected; the loading state has
\* ended with the error shown.
C38_Witness ==
  /\ ~reader.isLoading
  /\ reader.error = Some("display")
  /\ Loading(pending) = {}

(***************************************************************************)
(* The chapter label.  The reader shows a book whose table of contents is  *)
(* one of Tocs; the rendition reports its locations.                       *)
(***************************************************************************)
MaxTocLen == 2

TocHrefs == {<<"a">>, <<"o", "a">>, <<"b">>, <<"c">>}
TocEntries == {[href |-> h, label |-> l] : h \in TocHrefs, l \in {"One", "Two"}}
Tocs == UNION {[1..n -> TocEntries] : n \in 0..MaxTocLen}

InitChapter ==
  /\ EmptyStorage
  /\ pending = <<>>
  /\ deleteJoin = None
  /\ faults = MaxFaults
  /\ budget = [calls |-> MaxCalls, overlap |-> MaxInFlight]
  /\ translateElement = "original"
  /\ \E toc \in Tocs :
       reader = [bookmarks |-> <<>>, highlights |-> <<>>,
                 isCurrentPageBookmarked |-> FALSE, location |-> None,
                 annotations |-> {},
                 rendition |-> TRUE, locations |-> TRUE, isLoading |-> FALSE,
                 error |-> None, shown |-> None,
                 fontSize |-> DefaultFontSize, stale |-> FALSE,
                 searchResults |-> <<>>, isSearching |-> FALSE,
                 spine |-> <<>>, index |-> <<>>,
                 toc |-> toc, currentChapter |-> ""]
  /\ HookUnused
  /\ hist = HistInit

NextChapter ==
  \/ locationChanged
  \/ \E i \in Slots : saveReadingProgress_setItem(i)

SpecChapter == InitChapter /\ [][NextChapter]_vars

\* The entries of the table of contents whose href is `href`, and those
\* whose href is contained in it
ExactEntries(toc, href) == {i \in 1..Len(toc) : toc[i].href = href}
IncludedEntries(toc, href) ==
  {i \in 1..Len(toc) :
     \E from \in 0..Len(href) :
       /\ from + Len(toc[i].href) <= Len(href)
       /\ \A k \in 1..Len(toc[i].href) : href[from + k] = toc[i].href[k]}

First(indices) == CHOOSE i \in indices : \A j \in indices : i <= j

\* C39: at a location the renderer reports with an href, the current
\* chapter label is that of the entry of the table of contents whose href
\* equals it when there is one, otherwise that of the first entry whose
\* href is contained in it; when no entry matches the label stays.
C39_ChapterLabelFromToc ==
  [][reader'.location # reader.location =>
       LET href == HrefOf(Val(reader'.location).cfi)
           toc == reader.toc
       IN reader'.currentChapter =
            IF ExactEntries(toc, href) # {}
              THEN toc[First(ExactEntries(toc, href))].label
            ELSE IF IncludedEntries(toc, href) # {}
              THEN toc[First(IncludedEntries(toc, href))].label
            ELSE reader.currentChapter]_vars

\* The keys of localStorage that hold data
StorageKeys == {"bookmarks", "highlights", "progress", "settings"}

\* The step is the backup write of the save or remove call pending[i]
BackupWritten(i) ==
  /\ pending[i].pc \in {"saveBookmark_setItem", "removeBookmark_setItem",
                        "saveHighlight_setItem", "removeHighlight_setItem"}
  /\ pending' = Rest(i)

\* C40: a failed write of one entry to localStorage (safeStorageSet, with
\* the quota exceeded whatever is cleared) never removes or alters what is
\* stored under other keys: a failed bookmark backup write leaves the
\* highlight backup and every other entry as they were, and so does a
\* failed highlight backup write.
C40_FailedWriteLeavesOtherKeys ==
  [][\A i \in 1..Len(pending) :
       (BackupWritten(i) /\ localStorage.quota = "exceeded") =>
         \A k \in StorageKeys \ {pending[i].op.store} :
           localStorage'[k] = localStorage[k]]_vars

====
